---- MODULE Spec2Model ----
(***************************************************************************)
(* A model of pytest-loco: the plan execution engine (plugin/case.py), the *)
(* extension registry (core/loader.py), schema compilation                 *)
(* (extensions/parameters.py) and document parsing (core/parser.py).       *)
(***************************************************************************)
EXTENDS Integers, Sequences, FiniteSets, TLC

VARIABLES
    stack,      \* TestPlan: the activations of run_spec, the running one last
    outcome,    \* TestPlan: running, returned (a context) or raised (an error)
    log,        \* TestPlan: the phases executed so far, in order
    parser,     \* TestPlan.parser is set
    registry,   \* DocumentParser: strict_mode and the five registry tables
    calls,      \* the add_* calls made so far, each with what it did
    build,      \* Schema.build: its input and the position of its loop
    parse,      \* DocumentParser.parse: its input and the position of its loop
    eval        \* one application of a pure function: its arguments and its result

vars == <<stack, outcome, log, parser, registry, calls, build, parse, eval>>

(***************************************************************************)
(* Bounds                                                                  *)
(***************************************************************************)
MaxSteps == 2

(***************************************************************************)
(* Values (values.py).  A Value is a tagged record; a context is a         *)
(* function from variable names to Values.                                 *)
(***************************************************************************)
Null == [t |-> "null"]
IntVal(n) == [t |-> "int", v |-> n]
StrVal(s) == [t |-> "str", s |-> s]
MapVal(m) == [t |-> "map", m |-> m]
\* bool is a subclass of int: True is 1, False is 0
BoolVal(b) == [t |-> "bool", v |-> IF b THEN 1 ELSE 0]
\* the float n.0
FloatVal(n) == [t |-> "float", v |-> n]
\* pydantic.SecretStr wrapping s
SecretVal(s) == [t |-> "secret", s |-> s]
\* a list or a tuple (kind) of values
SeqVal(kind, items) == [t |-> kind, items |-> items]
\* an object that is no scalar, no container and not callable
Obj == [t |-> "obj"]

\* the outcome of a resolution or of a call that raised
Err == [t |-> "err"]

EmptyMap == [k \in {} |-> Null]

\* dict.update
Update(ctx, new) ==
    [k \in (DOMAIN ctx) \cup (DOMAIN new) |->
        IF k \in DOMAIN new THEN new[k] ELSE ctx[k]]

\* copy.deepcopy of a resolved context: an equal value without sharing
deepcopy(ctx) == ctx

(***************************************************************************)
(* Deferred values: a literal, a !var path lookup, or a callable that      *)
(* raises when it is invoked.                                              *)
(***************************************************************************)
Lit(val) == val
Var(path) == [t |-> "call", fn |-> "var", path |-> path]
Raising == [t |-> "call", fn |-> "raise"]
\* a pure callable that returns body, itself possibly deferred
Const(body) == [t |-> "call", fn |-> "const", body |-> body]

\* SCALARS: the types whose instances are resolved as they are
ScalarTags == {"bool", "int", "float", "str", "secret"}
\* SEQUENCES (a set is not modelled)
SequenceTags == {"list", "tuple"}

\* the segments that are decimal numbers, with int(key)
Decimals == [k \in {"0", "1", "5"} |-> CASE k = "0" -> 0 [] k = "1" -> 1 [] OTHER -> 5]

\* no segment is taken for a sequence index
isdecimal_never(key) == FALSE

\* key.isdecimal()
isdecimal(key) == key \in DOMAIN Decimals

\* VariableLookup.resolve: total traversal of a dotted path
RECURSIVE VariableLookup(_, _)
VariableLookup(val, path) ==
    IF val = Null \/ path = <<>> THEN val
    ELSE LET key == Head(path) IN
         IF key = "" THEN Null
         ELSE IF isdecimal(key) /\ val.t \in {"list", "tuple"}
              THEN LET index == Decimals[key] IN
                   IF 0 <= index /\ index < Len(val.items)
                   THEN VariableLookup(val.items[index + 1], Tail(path))
                   ELSE Null
              ELSE IF val.t = "map"
                   THEN IF key \in DOMAIN val.m
                        THEN VariableLookup(val.m[key], Tail(path))
                        ELSE Null
                   ELSE Null

\* SecretLookup.__call__: the lookup, unwrapped when it found a secret
SecretLookup_call(context, path) ==
    LET value == VariableLookup(MapVal(context), path) IN
    IF value.t = "secret" THEN StrVal(value.s) ELSE value

\* value(context) for a deferred callable
invoke(value, context) ==
    CASE value.fn = "var" -> VariableLookup(MapVal(context), value.path)
      [] value.fn = "const" -> value.body
      [] OTHER -> Err

RECURSIVE normalize(_, _)
\* a normalize that returns what a callable returned without normalizing it
normalize_raw_call(value, context) ==
    CASE value.t = "map" ->
            MapVal([k \in DOMAIN value.m |-> normalize(value.m[k], context)])
      [] value.t \in SequenceTags ->
            SeqVal("list", [i \in DOMAIN value.items |-> normalize(value.items[i], context)])
      [] value.t = "call" -> invoke(value, context)
      [] OTHER -> value

\* normalize(value, context): Err when a callable raises or a type is unsupported
normalize(value, context) ==
    CASE value.t = "err" -> Err
      [] value.t = "null" -> Null
      [] value.t \in ScalarTags -> value
      [] value.t = "map" ->
            LET items == [k \in DOMAIN value.m |-> normalize(value.m[k], context)] IN
            IF \E k \in DOMAIN items : items[k] = Err THEN Err ELSE MapVal(items)
      [] value.t \in SequenceTags ->
            LET items == [i \in DOMAIN value.items |->
                             normalize(value.items[i], context)] IN
            IF \E i \in DOMAIN items : items[i] = Err THEN Err ELSE SeqVal("list", items)
      [] value.t = "call" -> normalize(invoke(value, context), context)
      [] OTHER -> Err

\* ContextDict.resolve on a mapping of deferred members: raises when a member raises
resolve(m, ctx) ==
    IF \E k \in DOMAIN m : normalize(m[k], ctx) = Err
    THEN Err
    ELSE [k \in DOMAIN m |-> normalize(m[k], ctx)]

\* ContextMixin.resolve_context
resolve_context(model, values, isolate) ==
    IF isolate /\ DOMAIN model.vars = {} THEN EmptyMap
    ELSE IF DOMAIN model.vars = {} THEN values
    ELSE LET r == resolve(model.vars, values) IN
         IF r = Err THEN Err
         ELSE IF isolate THEN r ELSE Update(values, r)

(***************************************************************************)
(* Behaviour functions                                                     *)
(***************************************************************************)
\* the actor bound to an action: noop (builtins/actors.py) returns None,
\* increment (tests) returns val + 1, boom raises
runner(action, params) ==
    CASE action = "empty" -> Null
      [] action = "increment" ->
            IF params["val"].t = "int" THEN IntVal(params["val"].v + 1) ELSE Err
      \* a behaviour function that returns a mapping with a callable in it
      [] action = "lazy" -> MapVal([late |-> Const(IntVal(3))])
      [] OTHER -> Err

\* the result of the behaviour function is stored as it was returned
BaseAction_call_raw(step, context) ==
    LET ctx == resolve_context(step, context, FALSE) IN
    IF ctx = Err THEN Err
    ELSE LET params == resolve([val |-> step.val], ctx) IN
         IF params = Err THEN Err
         ELSE LET result == runner(step.action, params) IN
              IF result = Err THEN Err
              ELSE (step.output :> result)

\* BaseAction.__call__: return {self.output: normalize(result)}
BaseAction_call(step, context) ==
    LET ctx == resolve_context(step, context, FALSE) IN
    IF ctx = Err THEN Err
    ELSE LET params == resolve([val |-> step.val], ctx) IN
         IF params = Err THEN Err
         ELSE LET result == runner(step.action, params) IN
              IF result = Err THEN Err
              ELSE LET value == normalize(result, EmptyMap) IN
                   IF value = Err THEN Err ELSE (step.output :> value)

\* an include that passes the whole parent context on (isolate dropped)
IncludeAction_call_inherit(step, context) == resolve_context(step, context, FALSE)

\* IncludeAction.__call__
IncludeAction_call(step, context) == resolve_context(step, context, TRUE)

\* isinstance(actual, type(expected)): bool is a subclass of int
isinstance_of(actual, expected) ==
    \/ actual.t = expected.t
    \/ actual.t = "bool" /\ expected.t = "int"

NumberTags == {"bool", "int", "float"}

\* actual == expected in Python: numbers compare by value across bool, int and
\* float, containers of one type compare member by member
RECURSIVE PyEq(_, _)
PyEq(a, b) ==
    CASE a.t \in NumberTags /\ b.t \in NumberTags -> a.v = b.v
      [] a.t # b.t -> FALSE
      [] a.t = "map" ->
            /\ DOMAIN a.m = DOMAIN b.m
            /\ \A k \in DOMAIN a.m : PyEq(a.m[k], b.m[k])
      [] a.t \in SequenceTags ->
            /\ Len(a.items) = Len(b.items)
            /\ \A i \in DOMAIN a.items : PyEq(a.items[i], b.items[i])
      [] OTHER -> a = b

\* _exact_match: assert isinstance(actual, type(expected)); assert actual == expected
exact_match(actual, expected) ==
    IF isinstance_of(actual, expected) /\ PyEq(actual, expected) THEN "pass" ELSE "assert"

\* _partial_match, _seq_partial_match and _map_partial_match:
\* "pass" (True), "false" (False), "assert" (AssertionError), "error" (DSLRuntimeError)
RECURSIVE partial_match(_, _)
partial_match(actual, expected) ==
    CASE expected.t \in ScalarTags -> exact_match(actual, expected)
      [] expected.t \in SequenceTags ->
            IF actual.t \notin SequenceTags THEN "assert"
            ELSE LET pairs == (DOMAIN actual.items) \X (DOMAIN expected.items)
                     r(p) == partial_match(actual.items[p[1]], expected.items[p[2]])
                     matches == Cardinality({p \in pairs : r(p) = "pass"})
                 IN IF \E p \in pairs : r(p) = "error" THEN "error"
                    ELSE IF matches >= Len(expected.items) THEN "pass" ELSE "false"
      [] expected.t = "map" ->
            IF actual.t # "map" THEN "assert"
            ELSE LET r(k) == partial_match(actual.m[k], expected.m[k]) IN
                 IF \E k \in DOMAIN expected.m : k \notin DOMAIN actual.m THEN "assert"
                 ELSE IF \E k \in DOMAIN expected.m : r(k) \in {"assert", "error"}
                      THEN (IF \E k \in DOMAIN expected.m : r(k) = "error"
                            THEN "error" ELSE "assert")
                      ELSE IF \A k \in DOMAIN expected.m : r(k) = "pass"
                           THEN "pass" ELSE "false"
      [] OTHER -> "error"

\* BaseCheck.__call__ with the runner of the check's kind:
\* "pass" (True), "false" (False), "assert" (AssertionError), "error" (any other exception)
BaseCheck_call(check, context) ==
    LET r == resolve([value |-> check.value, expected |-> check.expected], context) IN
    IF r = Err THEN "error"
    ELSE CASE check.kind = "match" -> exact_match(r["value"], r["expected"])
           [] check.kind = "is_false" -> "false"
           [] check.kind = "is_none" -> "none"
           [] OTHER -> "error"

(***************************************************************************)
(* Headers (schema/cases.py, schema/inputs.py)                             *)
(***************************************************************************)
\* ParametersMixin.resolve_parameters: validation against the declared inputs
\* (extra='forbid'; a field accepts its type or None; missing required fails)
resolve_parameters(pdefs, values) ==
    IF pdefs = <<>> THEN EmptyMap
    ELSE LET names == {pdefs[i].name : i \in DOMAIN pdefs}
             def(n) == CHOOSE i \in DOMAIN pdefs :
                          /\ pdefs[i].name = n
                          /\ \A j \in DOMAIN pdefs : pdefs[j].name = n => j <= i
         IN IF \/ \E k \in DOMAIN values : k \notin names
               \/ \E n \in names :
                     \/ n \notin DOMAIN values /\ pdefs[def(n)].required
                     \/ /\ n \in DOMAIN values
                        /\ values[n] # Null
                        /\ values[n].t # pdefs[def(n)].type
            THEN Err
            ELSE [n \in names |->
                    IF n \in DOMAIN values THEN values[n] ELSE pdefs[def(n)].default]

\* the environment variables of the process that runs the plans
Environ == [HOME |-> StrVal("home")]

\* a required environment input that is not set is left out
resolve_environment_optional(edefs) ==
    LET names == {edefs[i].name : i \in DOMAIN edefs} IN
    [n \in names \cap DOMAIN Environ |-> Environ[n]]

\* EnvironmentMixin.resolve_environment: the settings model reads each declared
\* input from the process environment; a required one that is not set fails
resolve_environment(edefs) ==
    IF edefs = <<>> THEN EmptyMap
    ELSE LET names == {edefs[i].name : i \in DOMAIN edefs} IN
         IF \E i \in DOMAIN edefs :
               edefs[i].required /\ edefs[i].name \notin DOMAIN Environ
         THEN Err
         ELSE [n \in names |-> IF n \in DOMAIN Environ THEN Environ[n] ELSE Null]

\* the header's variables replace seed entries of the same name
merge_seed_vars_win(resolved, seed) == Update(seed, resolved)

\* return {**_locals.resolve(self.context), **_locals}
merge_seed(resolved, seed) == Update(resolved, seed)

\* Case.__call__ / Template.__call__: the seed entries win over header variables
Header_call(header, params) ==
    LET p == IF header.spec = "template"
             THEN resolve_parameters(header.pdefs, params)
             ELSE params
        e == resolve_environment(header.edefs)
    IN IF p = Err \/ e = Err THEN Err
       ELSE LET seed == IF header.spec = "case"
                        THEN [params |-> MapVal(p), meta |-> MapVal(header.metadata),
                              envs |-> MapVal(e)]
                        ELSE [params |-> MapVal(p), envs |-> MapVal(e)]
                r == resolve(header.vars, seed)
            IN IF r = Err THEN Err ELSE merge_seed(r, seed)

(***************************************************************************)
(* Documents                                                               *)
(***************************************************************************)
NoHeader ==
    [spec |-> "none", vars |-> EmptyMap, metadata |-> EmptyMap, pdefs |-> <<>>,
     edefs |-> <<>>]
CaseHeader(vs) ==
    [spec |-> "case", vars |-> vs, metadata |-> EmptyMap, pdefs |-> <<>>,
     edefs |-> <<>>]
TemplateHeader(vs, pd) ==
    [spec |-> "template", vars |-> vs, metadata |-> EmptyMap, pdefs |-> pd,
     edefs |-> <<>>]
\* the header's `environment` section
WithEnvironment(header, edefs) == [header EXCEPT !.edefs = edefs]

Check(title, kind, value, expected) ==
    [title |-> title, kind |-> kind, value |-> value, expected |-> expected]

Step(action, vs, val, output, export, expect) ==
    [action |-> action, vars |-> vs, val |-> val, output |-> output,
     export |-> export, expect |-> expect, file |-> ""]

Include(file, vs, output, export, expect) ==
    [action |-> "include", vars |-> vs, val |-> Lit(IntVal(0)), output |-> output,
     export |-> export, expect |-> expect, file |-> file]

\* the value a parent keeps in a header variable that no step exports
Secret == IntVal(7)

StepPool == {
    \* tests/test_case.py: increment value, export it
    Step("increment", EmptyMap, Var(<<"value">>), "result",
         [value |-> Var(<<"result">>)], <<>>),
    \* the same with an expectation on the exported value
    Step("increment", EmptyMap, Var(<<"value">>), "result",
         [value |-> Var(<<"result">>)],
         <<Check("value is two", "match", Var(<<"value">>), Lit(IntVal(2)))>>),
    \* an export that refers to a name the same step exports
    Step("increment", EmptyMap, Var(<<"value">>), "result",
         [value |-> Var(<<"result">>), seen |-> Var(<<"value">>)], <<>>),
    \* a result that is not exported, under a custom output name
    Step("increment", [value |-> Lit(IntVal(5))], Var(<<"value">>), "out",
         EmptyMap,
         <<Check("out is six", "match", Var(<<"out">>), Lit(IntVal(6)))>>),
    \* a behaviour function whose result holds a callable
    Step("lazy", EmptyMap, Lit(IntVal(0)), "result",
         [value |-> Var(<<"result", "late">>)], <<>>),
    \* a behaviour function that raises
    Step("boom", EmptyMap, Lit(IntVal(0)), "result", EmptyMap, <<>>),
    \* an export that cannot be resolved
    Step("empty", EmptyMap, Lit(IntVal(0)), "result", [value |-> Raising], <<>>),
    \* a failing expectation followed by another one
    Step("empty", EmptyMap, Lit(IntVal(0)), "result", [seen |-> Var(<<"value">>)],
         <<Check("", "is_false", Var(<<"value">>), Lit(Null)),
           Check("after", "match", Var(<<"result">>), Lit(Null))>>),
    \* a passing expectation followed by one that raises
    Step("empty", EmptyMap, Lit(IntVal(0)), "result", EmptyMap,
         <<Check("result is null", "match", Var(<<"result">>), Lit(Null)),
           Check("boom", "boom", Var(<<"result">>), Lit(Null))>>),
    \* an expectation whose runner returns neither True nor False, then one more
    Step("empty", EmptyMap, Lit(IntVal(0)), "result", EmptyMap,
         <<Check("returns nothing", "is_none", Var(<<"result">>), Lit(Null)),
           Check("result is null", "match", Var(<<"result">>), Lit(Null))>>),
    \* tests/test_case.py: include a template with a declared argument
    Include("t1", [argument |-> Lit(StrVal("OK"))], "result",
            [value |-> Var(<<"result", "value">>)],
            <<Check("Value exists in include result", "match",
                    Var(<<"value">>), Lit(StrVal("OK")))>>),
    \* an include that declares the parent's secret as an argument
    Include("tint", [argument |-> Var(<<"secret">>)], "result",
            [value |-> Var(<<"result", "value">>)], <<>>),
    \* an include that declares nothing; the template peeks at the parent
    Include("peek", EmptyMap, "inc", [got |-> Var(<<"inc", "leak">>)], <<>>),
    \* an include that passes a string for an integer parameter
    Include("tint", [argument |-> Lit(StrVal("OK"))], "result", EmptyMap, <<>>),
    \* templates that include themselves, directly or through another one
    Include("loop", EmptyMap, "result", EmptyMap, <<>>),
    Include("ping", EmptyMap, "result", EmptyMap, <<>>),
    \* templates that cannot be opened, parsed, or run
    Include("gone", EmptyMap, "result", EmptyMap, <<>>),
    Include("case", EmptyMap, "result", EmptyMap, <<>>),
    Include("tboom", EmptyMap, "result", EmptyMap, <<>>),
    Include("tfail", EmptyMap, "result", EmptyMap, <<>>)
}

\* the template files on disk: "ok" parses to a header and steps, "gone" cannot be
\* opened, "invalid" is rejected by the parser
Files == [
    t1 |-> [state |-> "ok",
            header |-> TemplateHeader([params |-> Lit(IntVal(9)),
                                       meta |-> Var(<<"params", "argument">>)],
                <<[name |-> "argument", type |-> "str", required |-> FALSE, default |-> Null]>>),
            steps |-> <<Step("empty", EmptyMap, Lit(IntVal(0)), "result",
                             [value |-> Var(<<"params", "argument">>)],
                             <<Check("Value exists in template", "match",
                                     Var(<<"value">>), Lit(StrVal("OK")))>>)>>],
    tint |-> [state |-> "ok",
              header |-> TemplateHeader(EmptyMap,
                <<[name |-> "argument", type |-> "int", required |-> TRUE, default |-> Null]>>),
              steps |-> <<Step("increment", EmptyMap, Var(<<"params", "argument">>), "result",
                               [value |-> Var(<<"result">>)], <<>>)>>],
    peek |-> [state |-> "ok",
              header |-> TemplateHeader([leak |-> Var(<<"secret">>)], <<>>),
              steps |-> <<Step("empty", EmptyMap, Lit(IntVal(0)), "result",
                               [leak |-> Var(<<"secret">>), seen |-> Var(<<"value">>)],
                               <<>>)>>],
    tboom |-> [state |-> "ok",
               header |-> TemplateHeader(EmptyMap, <<>>),
               steps |-> <<Step("boom", EmptyMap, Lit(IntVal(0)), "result", EmptyMap, <<>>)>>],
    tfail |-> [state |-> "ok",
               header |-> TemplateHeader(EmptyMap, <<>>),
               steps |-> <<Step("empty", EmptyMap, Lit(IntVal(0)), "result", EmptyMap,
                                <<Check("never", "is_false", Lit(Null), Lit(Null))>>)>>],
    \* a template that includes itself, and two that include each other
    loop |-> [state |-> "ok",
              header |-> TemplateHeader(EmptyMap, <<>>),
              steps |-> <<Include("loop", EmptyMap, "result", EmptyMap, <<>>)>>],
    ping |-> [state |-> "ok",
              header |-> TemplateHeader(EmptyMap, <<>>),
              steps |-> <<Include("pong", EmptyMap, "result", EmptyMap, <<>>)>>],
    pong |-> [state |-> "ok",
              header |-> TemplateHeader(EmptyMap, <<>>),
              steps |-> <<Include("ping", EmptyMap, "result", EmptyMap, <<>>)>>],
    case |-> [state |-> "ok", header |-> CaseHeader(EmptyMap), steps |-> <<>>],
    gone |-> [state |-> "gone", header |-> NoHeader, steps |-> <<>>],
    bad |-> [state |-> "invalid", header |-> NoHeader, steps |-> <<>>]
]

HeaderPool == {
    NoHeader,
    CaseHeader([value |-> Lit(IntVal(1)), secret |-> Lit(Secret)]),
    CaseHeader([value |-> Raising]),
    \* one environment input that is set and a required one that is not
    WithEnvironment(CaseHeader([value |-> Var(<<"envs", "HOME">>)]),
                    <<[name |-> "HOME", required |-> TRUE],
                      [name |-> "TOKEN", required |-> TRUE]>>),
    \* variables named like the seed entries, and one that refers to another
    CaseHeader([params |-> Lit(IntVal(9)), meta |-> Lit(IntVal(9)),
                envs |-> Var(<<"params">>), value |-> Lit(IntVal(1)),
                copy |-> Var(<<"value">>)]),
    \* an optional environment input that is not set
    WithEnvironment(CaseHeader([value |-> Lit(IntVal(1)),
                                home |-> Var(<<"envs", "HOME">>)]),
                    <<[name |-> "HOME", required |-> TRUE],
                      [name |-> "TOKEN", required |-> FALSE]>>)
}

RECURSIVE SeqsUpTo(_, _)
SeqsUpTo(S, n) ==
    IF n = 0 THEN {<<>>}
    ELSE LET shorter == SeqsUpTo(S, n - 1) IN
         shorter \cup {Append(s, x) : s \in {q \in shorter : Len(q) = n - 1}, x \in S}

(***************************************************************************)
(* Errors (errors.py)                                                      *)
(***************************************************************************)
NoneNum == -1
NoContext == [none |-> TRUE]
NoElement == [none |-> TRUE]

\* DSLRuntimeError.from_pydantic_model as run_callable calls it; `at` records
\* where the failure arose (the frame's include path, the step, the check)
DSLRuntimeError_from(model, context, step_num, check_num, at) ==
    [cls |-> "DSLRuntimeError", step_num |-> step_num, check_num |-> check_num,
     element |-> model, context |-> context, title |-> "", at |-> at]

\* ErrorFormatter.get_location_string: "on step {step_num + 1}"
get_location_string(step_num) == step_num + 1

\* an exception raised without coordinates
BareError(cls, at) ==
    [cls |-> cls, step_num |-> NoneNum, check_num |-> NoneNum,
     element |-> NoElement, context |-> NoContext, title |-> "", at |-> at]

\* TestPlan.fail
fail(check, context, step_num, check_num, at) ==
    [cls |-> "AssertionError", step_num |-> step_num, check_num |-> check_num,
     element |-> check, context |-> context, title |-> check.title, at |-> at]

Running == [kind |-> "running"]
Raised(e) == [kind |-> "raised", error |-> e]
Returned(ctx) == [kind |-> "returned", value |-> ctx]

(***************************************************************************)
(* TestPlan (plugin/case.py): a stack of run_spec activations, the last    *)
(* one running; an include pushes the nested plan.                         *)
(***************************************************************************)
\* a frame's handle on the template file of its include step
Closed == "closed"

\* run_spec and include call each other without a limit of their own; the
\* model follows the activations up to this depth
MaxDepth == 3

\* TestPlan.__init__ and the entry of run_spec
TestPlan(header, steps, params, path) ==
    [header |-> header, steps |-> steps, params |-> params, path |-> path,
     idx |-> 0, pc |-> "header", globals |-> EmptyMap, gpre |-> EmptyMap,
     locals |-> EmptyMap, results |-> EmptyMap, exports |-> EmptyMap, chk |-> 0,
     content |-> Closed]

Top == stack[Len(stack)]
CurStep == Top.steps[Top.idx + 1]
SetTop(f) == [stack EXCEPT ![Len(stack)] = f]

At(ev, chk) == [path |-> Top.path, step |-> Top.idx, ev |-> ev, chk |-> chk]
Event(ev, chk, res) ==
    [path |-> Top.path, step |-> Top.idx, ev |-> ev, chk |-> chk, res |-> res]

\* an exception leaves every activation of run_spec
Raise(e, ev) ==
    /\ outcome' = Raised(e)
    /\ log' = Append(log, ev)
    /\ UNCHANGED <<stack, parser, registry, calls, build, parse, eval>>

\* globals_ = self.run_header()
run_header ==
    /\ outcome = Running
    /\ Top.pc = "header"
    /\ IF Top.header.spec = "none"
       THEN /\ stack' = SetTop([Top EXCEPT !.globals = EmptyMap, !.pc = "loop"])
            /\ log' = Append(log, Event("header", NoneNum, "none"))
            /\ UNCHANGED <<outcome, parser, registry, calls, build, parse, eval>>
       ELSE LET r == Header_call(Top.header, Top.params) IN
            IF r = Err
            THEN Raise(DSLRuntimeError_from(Top.header, NoContext, 0, NoneNum,
                                            At("header", NoneNum)),
                       Event("header", NoneNum, "error"))
            ELSE /\ stack' = SetTop([Top EXCEPT !.globals = r, !.pc = "loop"])
                 /\ log' = Append(log, Event("header", NoneNum, "ok"))
                 /\ UNCHANGED <<outcome, parser, registry, calls, build, parse, eval>>

\* locals_ = ContextDict(deepcopy(globals_)); results = self.run_step(step, locals_)
run_step ==
    /\ outcome = Running
    /\ Top.pc = "loop"
    /\ Top.idx < Len(Top.steps)
    /\ LET locals_ == deepcopy(Top.globals)
           r == IF CurStep.action = "include"
                THEN IncludeAction_call(CurStep, locals_)
                ELSE BaseAction_call(CurStep, locals_)
       IN IF r = Err
          THEN Raise(DSLRuntimeError_from(CurStep, locals_, Top.idx, NoneNum,
                                          At("run", NoneNum)),
                     Event("run", NoneNum, "error"))
          ELSE /\ stack' = SetTop([Top EXCEPT
                                     !.locals = locals_, !.gpre = Top.globals,
                                     !.results = r, !.exports = EmptyMap, !.chk = 0,
                                     !.pc = IF CurStep.action = "include"
                                            THEN "include" ELSE "merge"])
               /\ log' = Append(log, Event("run", NoneNum, "ok"))
               /\ UNCHANGED <<outcome, parser, registry, calls, build, parse, eval>>

\* results = self.include(step, results): open and parse the template, then
\* start the nested plan with the resolved vars as its parameters
include ==
    /\ outcome = Running
    /\ Top.pc = "include"
    /\ LET file == Files[CurStep.file] IN
       IF ~parser
       THEN Raise(BareError("DSLRuntimeError", At("include", NoneNum)),
                  Event("include", NoneNum, "missing parser"))
       ELSE IF file.state = "gone"
       THEN Raise(BareError("OSError", At("include", NoneNum)),
                  Event("include", NoneNum, "open failed"))
       ELSE /\ stack' = SetTop([Top EXCEPT !.pc = "parse", !.content = CurStep.file])
            /\ UNCHANGED <<outcome, log, parser, registry, calls, build, parse, eval>>

\* the file stays open for as long as the nested plan runs
exit_with_block_keep_open(frame) == frame

\* the end of `with step.filepath.open(...) as content:`, left by the last
\* statement of the block or by an exception
exit_with_block(frame) == [frame EXCEPT !.content = Closed]

\* header, steps = self.parser.parse_file(content, expect='template') inside the
\* with block; then subplan = TestPlan(...) and subplan.run_spec() begins
include_parse ==
    /\ outcome = Running
    /\ Top.pc = "parse"
    /\ LET file == Files[CurStep.file] IN
       IF file.state = "invalid" \/ file.header.spec # "template"
       THEN /\ outcome' = Raised(BareError("DSLSchemaError", At("include", NoneNum)))
            /\ log' = Append(log, Event("include", NoneNum, "parse failed"))
            /\ stack' = SetTop(exit_with_block(Top))
            /\ UNCHANGED <<parser, registry, calls, build, parse, eval>>
       ELSE /\ Len(stack) < MaxDepth
            /\ stack' = Append(SetTop([exit_with_block(Top) EXCEPT !.pc = "nested"]),
                               TestPlan(file.header, file.steps, Top.results,
                                        Append(Top.path, Top.idx)))
            /\ log' = Append(log, Event("include", NoneNum, "ok"))
            /\ UNCHANGED <<outcome, parser, registry, calls, build, parse, eval>>

\* path p leads to, or through, the activation at path q
Within(p, q) == Len(q) <= Len(p) /\ SubSeq(p, 1, Len(q)) = q

\* subplan = TestPlan(header, steps, context, ...); subplan.run_spec() for a
\* document and parameters that an enclosing activation was started with: what
\* follows repeats what followed the start of that activation, one level of
\* nesting deeper each time, so the model goes on from that start
include_again ==
    /\ outcome = Running
    /\ Top.pc = "parse"
    /\ Len(stack) = MaxDepth
    /\ LET file == Files[CurStep.file]
           same(n) == /\ stack[n].header = file.header
                      /\ stack[n].steps = file.steps
                      /\ stack[n].params = Top.results
       IN /\ file.state = "ok"
          /\ file.header.spec = "template"
          /\ \E n \in 2..Len(stack) :
                /\ same(n)
                /\ \A m \in (n + 1)..Len(stack) : ~same(m)
                /\ LET before(e) == ~Within(e.path, stack[n].path) IN
                   /\ stack' = Append(SubSeq(stack, 1, n - 1),
                                      TestPlan(file.header, file.steps, Top.results,
                                               stack[n].path))
                   /\ log' = SelectSeq(log, before)
    /\ UNCHANGED <<outcome, parser, registry, calls, build, parse, eval>>

\* return globals_: to the caller of the plan, or to the include that started it
\* (return {step.output: subplan.run_spec()})
return_spec ==
    /\ outcome = Running
    /\ Top.pc = "loop"
    /\ Top.idx = Len(Top.steps)
    /\ log' = Append(log, Event("return", NoneNum, "ok"))
    /\ IF Len(stack) = 1
       THEN /\ outcome' = Returned(Top.globals)
            /\ UNCHANGED <<stack, parser, registry, calls, build, parse, eval>>
       ELSE LET parent == stack[Len(stack) - 1]
                pstep == parent.steps[parent.idx + 1]
                rest == SubSeq(stack, 1, Len(stack) - 1)
            IN /\ stack' = [rest EXCEPT ![Len(rest)] =
                              [parent EXCEPT
                                 !.results = (pstep.output :> MapVal(Top.globals)),
                                 !.pc = "merge"]]
               /\ UNCHANGED <<outcome, parser, registry, calls, build, parse, eval>>

\* locals_.update(results)
merge_result ==
    /\ outcome = Running
    /\ Top.pc = "merge"
    /\ stack' = SetTop([Top EXCEPT !.locals = Update(Top.locals, Top.results),
                                   !.pc = "export"])
    /\ log' = Append(log, Event("merge", NoneNum, "ok"))
    /\ UNCHANGED <<outcome, parser, registry, calls, build, parse, eval>>

\* exports resolved before the result is merged
export_view_before_merge(frame) == frame.gpre

\* the context the export mapping is resolved against
export_view(frame) == frame.locals

\* an entry of the export mapping sees the other entries of the same step
locals_resolve_cumulative(export, view) ==
    LET first == resolve(export, view) IN
    IF first = Err THEN Err ELSE resolve(export, Update(view, first))

\* locals_.resolve(step.export): normalize(export, locals_), every entry against
\* the one context
locals_resolve(export, view) == resolve(export, view)

\* exports = self.run_callable(partial(locals_.resolve, step.export), ...)
resolve_exports ==
    /\ outcome = Running
    /\ Top.pc = "export"
    /\ LET e == locals_resolve(CurStep.export, export_view(Top)) IN
       IF e = Err
       THEN Raise(DSLRuntimeError_from(CurStep, Top.locals, Top.idx, NoneNum,
                                       At("export", NoneNum)),
                  Event("export", NoneNum, "error"))
       ELSE /\ stack' = SetTop([Top EXCEPT !.exports = e, !.pc = "mexport"])
            /\ log' = Append(log, Event("export", NoneNum, "ok"))
            /\ UNCHANGED <<outcome, parser, registry, calls, build, parse, eval>>

\* locals_.update(exports)
merge_exports ==
    /\ outcome = Running
    /\ Top.pc = "mexport"
    /\ stack' = SetTop([Top EXCEPT !.locals = Update(Top.locals, Top.exports),
                                   !.chk = 0, !.pc = "check"])
    /\ log' = Append(log, Event("mexport", NoneNum, "ok"))
    /\ UNCHANGED <<outcome, parser, registry, calls, build, parse, eval>>

\* a False result no longer counts as a failure
check_failed_only_raised(res) == res = "assert"

\* if check_result is False: raise AssertionError / except AssertionError
check_failed(res) == res \in {"false", "assert"}

\* every exception of the executor is wrapped, an assertion error included
run_callable_wraps_all(res) ==
    IF res \in {"assert", "error"} THEN "DSLRuntimeError" ELSE "none"

\* what run_callable raises for an executor's outcome: except AssertionError:
\* raise; any other exception becomes a DSLRuntimeError; a value is returned
run_callable_raises(res) ==
    CASE res = "assert" -> "AssertionError"
      [] res = "error" -> "DSLRuntimeError"
      [] OTHER -> "none"

\* one iteration of: for check_num, _check in enumerate(step.expect)
run_check ==
    /\ outcome = Running
    /\ Top.pc = "check"
    /\ Top.chk < Len(CurStep.expect)
    /\ LET check == CurStep.expect[Top.chk + 1]
           res == BaseCheck_call(check, Top.locals)
       IN IF run_callable_raises(res) = "DSLRuntimeError"
          THEN Raise(DSLRuntimeError_from(check, Top.locals, Top.idx, Top.chk,
                                          At("check", Top.chk)),
                     Event("check", Top.chk, res))
          ELSE IF check_failed(res)
          THEN Raise(fail(check, Top.locals, Top.idx, Top.chk, At("check", Top.chk)),
                     Event("check", Top.chk, res))
          ELSE /\ stack' = SetTop([Top EXCEPT !.chk = Top.chk + 1])
               /\ log' = Append(log, Event("check", Top.chk, res))
               /\ UNCHANGED <<outcome, parser, registry, calls, build, parse, eval>>

\* the whole local view is merged into the global context
commit_globals_all(globals_, locals_, exports) == Update(globals_, locals_)

\* globals_.update(exports)
commit_globals(globals_, locals_, exports) == Update(globals_, exports)

\* the end of a loop iteration, after the last check
commit_exports ==
    /\ outcome = Running
    /\ Top.pc = "check"
    /\ Top.chk = Len(CurStep.expect)
    /\ stack' = SetTop([Top EXCEPT
                          !.globals = commit_globals(Top.globals, Top.locals, Top.exports),
                          !.idx = Top.idx + 1, !.pc = "loop"])
    /\ log' = Append(log, Event("commit", NoneNum, "ok"))
    /\ UNCHANGED <<outcome, parser, registry, calls, build, parse, eval>>

PlanInit ==
    /\ \E h \in HeaderPool, s \in SeqsUpTo(StepPool, MaxSteps) :
          stack = <<TestPlan(h, s, EmptyMap, <<>>)>>
    /\ outcome = Running
    /\ log = <<>>
    /\ parser \in BOOLEAN


(***************************************************************************)
(* Properties of the plan engine                                           *)
(***************************************************************************)
RECURSIVE Contains(_, _)
\* x occurs in val at some depth
Contains(val, x) ==
    \/ val = x
    \/ /\ val.t = "map"
       /\ \E k \in DOMAIN val.m : Contains(val.m[k], x)

\* the position of a phase within one loop iteration
Rank(ev) ==
    CASE ev = "run" -> 1
      [] ev = "include" -> 2
      [] ev = "merge" -> 3
      [] ev = "export" -> 4
      [] ev = "mexport" -> 5
      [] ev = "check" -> 6
      [] ev = "commit" -> 7
      [] OTHER -> 0

InStep(f) == f.pc \in {"include", "nested", "merge", "export", "mexport", "check"}

\* C1: when a step completes, the global context becomes the global context
\* before the step updated with exactly the step's resolved exports; the result
\* under the output name and the rest of the local view stay local, and an empty
\* export mapping leaves the global context unchanged.
C1_GlobalsChangeOnlyByExports ==
    [][(Len(stack') = Len(stack) /\ Top'.idx = Top.idx + 1) =>
         LET view == Update(deepcopy(Top.gpre), Top.results)
             exported == resolve(CurStep.export, view)
         IN /\ exported # Err
            /\ Top'.globals = Update(Top.gpre, exported)
            /\ \A k \in DOMAIN Top'.globals :
                  k \notin DOMAIN CurStep.export =>
                     k \in DOMAIN Top.gpre /\ Top'.globals[k] = Top.gpre[k]
            /\ DOMAIN CurStep.export = {} => Top'.globals = Top.gpre]_vars

\* a plan ran increment twice from value = 1: the exports reached the global
\* context, the results did not
C1_Witness ==
    /\ outcome.kind = "returned"
    /\ "value" \in DOMAIN outcome.value
    /\ outcome.value["value"] = IntVal(3)
    /\ "result" \notin DOMAIN outcome.value

\* C2: within a step the result is merged into the local view before the
\* exports are resolved, the exports are resolved against that view and merged
\* before the checks run, and the global context receives nothing before the
\* last check has passed.
C2_PhaseOrder ==
    /\ \A i \in DOMAIN stack :
          LET f == stack[i]
              step == f.steps[f.idx + 1]
              view == Update(deepcopy(f.gpre), f.results)
          IN /\ InStep(f) => f.globals = f.gpre
             /\ f.pc = "export" => f.locals = view
             /\ f.pc \in {"mexport", "check"} => f.exports = resolve(step.export, view)
             /\ f.pc = "check" => f.locals = Update(view, f.exports)
    /\ \A i, j \in DOMAIN log :
          (/\ i < j
           /\ log[i].path = log[j].path
           /\ log[i].step = log[j].step
           /\ Rank(log[i].ev) > 0
           /\ Rank(log[j].ev) > 0) => Rank(log[i].ev) <= Rank(log[j].ev)

\* a check is about to run: the local view holds the result and the export,
\* the global context still holds the old value
C2_Witness ==
    /\ Top.pc = "check"
    /\ Top.chk < Len(CurStep.expect)
    /\ "value" \in DOMAIN Top.exports
    /\ Top.locals["result"] = IntVal(2)
    /\ Top.locals["value"] = IntVal(2)
    /\ Top.globals["value"] = IntVal(1)

\* C3: a failed check (a False result or an assertion error) is the last thing
\* a plan does: the assertion failure carries its step and check index, no
\* later check or step runs, nothing runs twice, and nothing happens afterwards.
C3_FailedCheckAborts ==
    /\ [](\A i \in DOMAIN log :
            (log[i].ev = "check" /\ log[i].res \in {"false", "assert"}) =>
               /\ i = Len(log)
               /\ outcome.kind = "raised"
               /\ outcome.error.cls = "AssertionError"
               /\ outcome.error.step_num = log[i].step
               /\ outcome.error.check_num = log[i].chk)
    /\ [](\A i, j \in DOMAIN log : i < j => log[i] # log[j])
    /\ [][outcome.kind # "raised"]_vars

\* the first of two checks of the first of two steps failed
C3_Witness ==
    /\ outcome.kind = "raised"
    /\ outcome.error.cls = "AssertionError"
    /\ outcome.error.check_num = 0
    /\ Len(stack) = 1
    /\ Top.idx = 0
    /\ Len(Top.steps) = 2
    /\ Len(CurStep.expect) = 2

HeaderBroken(frame) ==
    LET h == frame.header
        p == IF h.spec = "template" THEN resolve_parameters(h.pdefs, frame.params)
             ELSE frame.params
    IN /\ h.spec # "none"
       /\ \/ \E i \in DOMAIN h.edefs :
                h.edefs[i].required /\ h.edefs[i].name \notin DOMAIN Environ
          \/ p = Err
          \/ \E k \in DOMAIN h.vars :
                normalize(h.vars[k],
                          [params |-> MapVal(p),
                           envs |-> MapVal(resolve_environment(h.edefs))]) = Err

\* C22: a header that fails (missing environment input, missing or invalid
\* template parameter, unresolvable variable) ends the run with a
\* DSLRuntimeError tagged step 0 before anything of that plan's steps has run,
\* and it fails in exactly these cases; a plan without a header starts its
\* loop with an empty global context.
C22_HeaderFailureIsStepZero ==
    /\ [](\A i \in DOMAIN log :
            (log[i].ev = "header" /\ log[i].res = "error") =>
               /\ i = Len(log)
               /\ outcome.kind = "raised"
               /\ outcome.error.cls = "DSLRuntimeError"
               /\ outcome.error.step_num = 0
               /\ \A j \in DOMAIN log : log[j].path = log[i].path => j = i)
    /\ [][log' # log /\ log'[Len(log')].ev = "header" =>
            /\ (log'[Len(log')].res = "error") <=> HeaderBroken(Top)
            /\ (log'[Len(log')].res = "none") <=> (Top.header.spec = "none")
            /\ Top.header.spec = "none" =>
                 /\ outcome' = Running
                 /\ stack'[Len(stack')].globals = EmptyMap
                 /\ stack'[Len(stack')].pc = "loop"]_vars

\* the second step of a case included a template whose header rejected the
\* parameters it was given
C22_Witness ==
    /\ outcome.kind = "raised"
    /\ outcome.error.cls = "DSLRuntimeError"
    /\ outcome.error.step_num = 0
    /\ Len(stack) = 2
    /\ stack[1].idx = 1
    /\ Top.header.spec = "template"
    /\ Top.pc = "header"
    /\ log[Len(log)].ev = "header"

\* C4: a nested template run receives exactly the include step's resolved vars
\* as parameters, sees nothing else of the parent, and hands its final global
\* context back only as the value under the include's output name; the
\* parent's global context does not change while the include step is running.
C4_IncludeIsolation ==
    /\ \A i \in DOMAIN stack :
          i > 1 =>
             LET f == stack[i]
                 p == stack[i - 1]
                 pstep == p.steps[p.idx + 1]
             IN /\ p.pc = "nested"
                /\ DOMAIN f.params \subseteq DOMAIN pstep.vars
                /\ f.params = resolve(pstep.vars, deepcopy(p.gpre))
                /\ p.globals = p.gpre
                /\ (Contains(MapVal(f.globals), Secret) \/ Contains(MapVal(f.locals), Secret)) =>
                      \E k \in DOMAIN pstep.vars : Contains(f.params[k], Secret)
    /\ \A i \in DOMAIN stack :
          LET f == stack[i] IN
          (f.pc \in {"merge", "export", "mexport", "check"}
              /\ f.steps[f.idx + 1].action = "include") =>
             /\ DOMAIN f.results = {f.steps[f.idx + 1].output}
             /\ f.globals = f.gpre

\* a template that reads the parent's secret got null although the parent holds it
C4_Witness ==
    /\ Len(stack) = 2
    /\ "secret" \in DOMAIN stack[1].locals
    /\ stack[1].locals["secret"] = Secret
    /\ Top.pc = "loop"
    /\ Top.idx = 1
    /\ "leak" \in DOMAIN Top.globals
    /\ Top.globals["leak"] = Null

\* C5: every failure that leaves run_spec and is not an assertion failure is a
\* DSLRuntimeError carrying the step (and check) index where it arose, the
\* model's fields and the local context.
C5_FailuresAreLocatedRuntimeErrors ==
    (outcome.kind = "raised" /\ outcome.error.cls # "AssertionError") =>
       LET e == outcome.error IN
       /\ e.cls = "DSLRuntimeError"
       /\ e.step_num = (IF e.at.ev = "header" THEN 0 ELSE e.at.step)
       /\ e.check_num = e.at.chk
       /\ e.element # NoElement
       /\ e.at.ev # "header" => e.context # NoContext

(***************************************************************************)
(* Schema compilation (extensions/parameters.py)                           *)
(***************************************************************************)
MaxAttrs == 2

Attribute(name, aliases) == [name |-> name, aliases |-> aliases]

\* the two checks of one iteration of Schema.build's loop
attribute_collides(attribute, exclude) ==
    \/ attribute.aliases # {} /\ exclude \cap attribute.aliases # {}
    \/ attribute.name \in exclude

\* the aliases are not added to the exclusion set
exclude_after_name_only(attribute, exclude) == exclude \cup {attribute.name}

\* exclude.add(name); exclude.update(attribute.aliases)
exclude_after(attribute, exclude) ==
    exclude \cup {attribute.name} \cup attribute.aliases

RECURSIVE schema_loop(_, _, _)
schema_loop(attrs, exclude, fields) ==
    IF attrs = <<>> THEN [status |-> "ok", fields |-> fields]
    ELSE IF attribute_collides(Head(attrs), exclude)
         THEN [status |-> "ValueError", fields |-> {}]
         ELSE schema_loop(Tail(attrs), exclude_after(Head(attrs), exclude),
                          fields \cup {Head(attrs).name})

\* Schema.build(exclude): the names of the compiled fields, or ValueError
Schema_build(attrs, exclude) == schema_loop(attrs, exclude, {})

(***************************************************************************)
(* Extension registry (core/loader.py, extensions/*.py)                    *)
(***************************************************************************)
MaxCalls == 3

\* BaseAction.model_fields and the names Actor.build_fields reserves
ActionReserved(name) ==
    {"spec", "action", "expect", "output", "export", "context", "title",
     "description", name, "runner", "vars"}

\* resolve_plugin_names: f'{namespace or "builtins"}.{item.name}'
qualname(namespace, name) == <<IF namespace = "" THEN "builtins" ELSE namespace, name>>

\* Actor.build(namespace): the variant, or ValueError from the parameter schema
Actor_build(actor, namespace) ==
    IF Schema_build(actor.parameters, ActionReserved(actor.name)).status = "ValueError"
    THEN Err
    ELSE [action |-> <<namespace, actor.name>>, runner |-> actor.behaviour]

\* Checker.build(): the discriminator field accepts its name and its aliases
Checker_build(checker) ==
    [name |-> checker.name, keys |-> {checker.name} \cup checker.aliases,
     runner |-> checker.behaviour]

\* ContentDecoder.build / ContentEncoder.build
Content_build(name, behaviour) == [format |-> name, runner |-> behaviour]

\* Instruction.build()
Instruction_build(instruction) ==
    [name |-> instruction.name, runner |-> instruction.behaviour]

Put(table, key, value) ==
    [k \in (DOMAIN table) \cup {key} |-> IF k = key THEN value ELSE table[k]]

\* what one add_* call did: the registry after it, what it raised, whether it warned
Done(reg, raised, warned) == [reg |-> reg, raised |-> raised, warned |-> warned]

\* strict mode ignored: always a warning
emit_plugin_issue_warn_only(reg) ==
    [error |-> FALSE, reg |-> [reg EXCEPT !.warnings = @ + 1]]

\* emit_plugin_issue: the error in strict mode, a warning otherwise
emit_plugin_issue(reg) ==
    IF reg.strict_mode
    THEN [error |-> TRUE, reg |-> reg]
    ELSE [error |-> FALSE, reg |-> [reg EXCEPT !.warnings = @ + 1]]

\* the first registration wins
store_actor_keep_first(table, key, variant) ==
    IF key \in DOMAIN table THEN table
    ELSE [k \in (DOMAIN table) \cup {key} |-> IF k = key THEN variant ELSE table[k]]

\* self.actors[qualname] = actor.build(namespace)
store_actor(table, key, variant) == Put(table, key, variant)

\* ExtensionsLoaderMixin.add_actor
add_actor(reg, actor, namespace) ==
    LET key == qualname(namespace, actor.name)
        shadow == key \in DOMAIN reg.actors
        issue == emit_plugin_issue(reg)
    IN IF shadow /\ issue.error
       THEN Done(reg, "PluginError", FALSE)
       ELSE LET r == IF shadow THEN issue.reg ELSE reg
                variant == Actor_build(actor, namespace)
            IN IF variant = Err
               THEN Done(r, "ValueError", shadow)
               ELSE Done([r EXCEPT !.actors = store_actor(@, key, variant)], "none", shadow)

\* ExtensionsLoaderMixin.add_checker
add_checker(reg, checker) ==
    LET key == qualname("", checker.name)
        shadow == key \in DOMAIN reg.checkers
        issue == emit_plugin_issue(reg)
    IN IF shadow /\ issue.error
       THEN Done(reg, "PluginError", FALSE)
       ELSE LET r == IF shadow THEN issue.reg ELSE reg IN
            Done([r EXCEPT !.checkers = Put(@, key, Checker_build(checker))], "none", shadow)

\* ExtensionsLoaderMixin.add_content_type: the decoder first, then the encoder
add_content_type(reg, content_type) ==
    LET key == qualname("", content_type.name)
        hasDec == content_type.decoder # "none"
        hasEnc == content_type.encoder # "none"
        shadowDec == hasDec /\ key \in DOMAIN reg.decoders
        issueDec == emit_plugin_issue(reg)
    IN IF shadowDec /\ issueDec.error
       THEN Done(reg, "PluginError", FALSE)
       ELSE LET r0 == IF shadowDec THEN issueDec.reg ELSE reg
                r1 == IF hasDec
                      THEN [r0 EXCEPT !.decoders =
                               Put(@, key, Content_build(content_type.name, content_type.decoder))]
                      ELSE r0
                shadowEnc == hasEnc /\ key \in DOMAIN r1.encoders
                issueEnc == emit_plugin_issue(r1)
            IN IF shadowEnc /\ issueEnc.error
               THEN Done(r1, "PluginError", shadowDec)
               ELSE LET r2 == IF shadowEnc THEN issueEnc.reg ELSE r1
                        r3 == IF hasEnc
                              THEN [r2 EXCEPT !.encoders =
                                       Put(@, key, Content_build(content_type.name,
                                                                content_type.encoder))]
                              ELSE r2
                    IN Done(r3, "none", shadowDec \/ shadowEnc)

\* ExtensionsLoaderMixin.add_instruction
add_instruction(reg, instruction) ==
    LET shadow == instruction.name \in DOMAIN reg.instructions
        issue == emit_plugin_issue(reg)
    IN IF shadow /\ issue.error
       THEN Done(reg, "PluginError", FALSE)
       ELSE LET r == IF shadow THEN issue.reg ELSE reg IN
            Done([r EXCEPT !.instructions = Put(@, instruction.name,
                                                Instruction_build(instruction))],
                 "none", shadow)

\* the descriptors of builtins/*.py that DocumentParser.__init__ registers
BuiltinActors == {[name |-> "empty", behaviour |-> "builtin", parameters |-> <<>>]}

BuiltinCheckers == {
    [name |-> "match", aliases |-> {"eq", "equal"}, behaviour |-> "builtin"],
    [name |-> "not_match", aliases |-> {"notMatch", "ne", "notEqual"}, behaviour |-> "builtin"],
    [name |-> "less_than", aliases |-> {"lt", "lessThan"}, behaviour |-> "builtin"],
    [name |-> "less_than_or_equal", aliases |-> {"lte", "lessThanOrEqual"},
     behaviour |-> "builtin"],
    [name |-> "greater_than", aliases |-> {"gt", "greaterThan"}, behaviour |-> "builtin"],
    [name |-> "greater_than_or_equal", aliases |-> {"gte", "greaterThanOrEqual"},
     behaviour |-> "builtin"],
    [name |-> "regex", aliases |-> {"reMatch", "regexMatch"}, behaviour |-> "builtin"]
}

BuiltinInstructions ==
    {[name |-> n, behaviour |-> "builtin"] :
        n \in {"var", "secret", "date", "datetime", "timedelta", "duration",
               "textFile", "binaryFile", "base64", "binaryHex"}}

\* self._cached_model is None
NoModel == [t |-> "none"]

\* DocumentParser.__init__: clear_plugins, then the built-in registrations
DocumentParser(strict) ==
    [strict_mode |-> strict,
     cached_model |-> NoModel,
     actors |-> [k \in {qualname("", a.name) : a \in BuiltinActors} |->
                   Actor_build(CHOOSE a \in BuiltinActors : qualname("", a.name) = k, "")],
     checkers |-> [k \in {qualname("", c.name) : c \in BuiltinCheckers} |->
                     Checker_build(CHOOSE c \in BuiltinCheckers : qualname("", c.name) = k)],
     decoders |-> [k \in {} |-> Err],
     encoders |-> [k \in {} |-> Err],
     instructions |-> [k \in {i.name : i \in BuiltinInstructions} |->
                         Instruction_build(CHOOSE i \in BuiltinInstructions : i.name = k)],
     warnings |-> 0]

\* the descriptors registered after construction
ActorPool == {
    [name |-> "increment", behaviour |-> "first", parameters |-> <<Attribute("incValue", {})>>],
    [name |-> "increment", behaviour |-> "second", parameters |-> <<Attribute("incValue", {})>>],
    [name |-> "empty", behaviour |-> "second", parameters |-> <<>>],
    [name |-> "increment", behaviour |-> "second", parameters |-> <<Attribute("output", {})>>]
}

NamespacePool == {"", "test"}

CheckerPool == {
    [name |-> "match", aliases |-> {"eq", "equal"}, behaviour |-> "second"],
    [name |-> "equal", aliases |-> {}, behaviour |-> "first"],
    [name |-> "custom", aliases |-> {"isCustom"}, behaviour |-> "first"],
    [name |-> "custom", aliases |-> {}, behaviour |-> "second"]
}

ContentTypePool == {
    [name |-> "json", decoder |-> "first", encoder |-> "first"],
    [name |-> "json", decoder |-> "second", encoder |-> "none"],
    [name |-> "json", decoder |-> "none", encoder |-> "second"],
    [name |-> "yaml", decoder |-> "second", encoder |-> "second"]
}

InstructionPool == {
    [name |-> "var", behaviour |-> "second"],
    [name |-> "custom", behaviour |-> "first"],
    [name |-> "custom", behaviour |-> "second"]
}

Call(kind, item, namespace, done) ==
    [kind |-> kind, item |-> item, namespace |-> namespace,
     raised |-> done.raised, warned |-> done.warned]

AddActor ==
    /\ Len(calls) < MaxCalls
    /\ \E actor \in ActorPool, namespace \in NamespacePool :
          LET done == add_actor(registry, actor, namespace) IN
          /\ registry' = done.reg
          /\ calls' = Append(calls, Call("actor", actor, namespace, done))
    /\ UNCHANGED <<stack, outcome, log, parser, build, parse, eval>>

AddChecker ==
    /\ Len(calls) < MaxCalls
    /\ \E checker \in CheckerPool :
          LET done == add_checker(registry, checker) IN
          /\ registry' = done.reg
          /\ calls' = Append(calls, Call("checker", checker, "", done))
    /\ UNCHANGED <<stack, outcome, log, parser, build, parse, eval>>

AddContentType ==
    /\ Len(calls) < MaxCalls
    /\ \E content_type \in ContentTypePool :
          LET done == add_content_type(registry, content_type) IN
          /\ registry' = done.reg
          /\ calls' = Append(calls, Call("content", content_type, "", done))
    /\ UNCHANGED <<stack, outcome, log, parser, build, parse, eval>>

AddInstruction ==
    /\ Len(calls) < MaxCalls
    /\ \E instruction \in InstructionPool :
          LET done == add_instruction(registry, instruction) IN
          /\ registry' = done.reg
          /\ calls' = Append(calls, Call("instruction", instruction, "", done))
    /\ UNCHANGED <<stack, outcome, log, parser, build, parse, eval>>

(***************************************************************************)
(* The document model (core/builder.py, core/parser.py)                    *)
(***************************************************************************)
\* list(table.values())
Values(table) == {table[k] : k \in DOMAIN table}

\* the variant of the include step, always part of the Step union
IncludeVariant == [runner |-> "include", action |-> <<"", "include">>]

\* build_checks: None for no checks, else the union of the check variants
build_checks(checks) ==
    IF checks = {} THEN NoModel ELSE [t |-> "Check", variants |-> checks]

\* build_actions: the union of IncludeAction and the registered actions, each
\* with the expect field of the check model
build_actions(actions, check_model) ==
    [t |-> "Step", variants |-> {IncludeVariant} \cup actions, expect |-> check_model]

\* build_document
build_document(actions, checks) ==
    LET step == build_actions(actions, build_checks(checks)) IN
    IF step = NoModel THEN NoModel
    ELSE [t |-> "Document", headers |-> {"Case", "Template"}, step |-> step]

\* every build() composes the model again
cached_never(reg) == FALSE

\* if self._cached_model is not None
cached(reg) == reg.cached_model # NoModel

\* DocumentParser.build; composes says whether pydantic accepts the composition
DocumentParser_build(reg, composes) ==
    IF cached(reg)
    THEN [reg |-> reg, raised |-> "none", returned |-> reg.cached_model]
    ELSE IF ~composes
         THEN [reg |-> reg, raised |-> "DSLBuildError", returned |-> NoModel]
         ELSE LET model == build_document(Values(reg.actors), Values(reg.checkers)) IN
              IF model = NoModel
              THEN [reg |-> reg, raised |-> "DSLBuildError", returned |-> NoModel]
              ELSE [reg |-> [reg EXCEPT !.cached_model = model],
                    raised |-> "none", returned |-> model]

\* ExtensionsLoaderMixin.clear_plugins
clear_plugins(reg) ==
    [reg EXCEPT !.actors = <<>>, !.checkers = <<>>, !.decoders = <<>>,
                !.encoders = <<>>, !.instructions = <<>>]

\* a build() call, recorded with what the registry held when it was made
Build ==
    /\ Len(calls) < MaxCalls
    /\ \E composes \in BOOLEAN :
          LET done == DocumentParser_build(registry, composes) IN
          /\ registry' = done.reg
          /\ calls' = Append(calls,
                [kind |-> "build",
                 item |-> [actors |-> Values(registry.actors),
                           checkers |-> Values(registry.checkers)],
                 namespace |-> "", raised |-> done.raised, warned |-> FALSE,
                 returned |-> done.returned])
    /\ UNCHANGED <<stack, outcome, log, parser, build, parse, eval>>

\* a clear_plugins() call
ClearPlugins ==
    /\ Len(calls) < MaxCalls
    /\ registry' = clear_plugins(registry)
    /\ calls' = Append(calls, [kind |-> "clear", item |-> <<>>, namespace |-> "",
                               raised |-> "none", warned |-> FALSE])
    /\ UNCHANGED <<stack, outcome, log, parser, build, parse, eval>>

(***************************************************************************)
(* Schema.build as a loop over the attributes                              *)
(***************************************************************************)
AttributeNames == {"a", "b", "c"}
AliasNames == {"a", "b", "x"}
ReservedNames == {"a", "runner"}

AttributePool == {Attribute(n, al) : n \in AttributeNames, al \in SUBSET AliasNames}

\* a schema is a dict: its attribute names are distinct
Schemas ==
    {sch \in SeqsUpTo(AttributePool, MaxAttrs) :
        \A i, j \in DOMAIN sch : i # j => sch[i].name # sch[j].name}

\* one iteration of: for name, attribute in self.root.items()
schema_build_step ==
    /\ build.status = "running"
    /\ build.pos < Len(build.attrs)
    /\ LET attribute == build.attrs[build.pos + 1] IN
       IF attribute_collides(attribute, build.exclude)
       THEN build' = [build EXCEPT !.status = "ValueError"]
       ELSE build' = [build EXCEPT !.pos = @ + 1,
                                   !.exclude = exclude_after(attribute, @),
                                   !.fields = @ \cup {attribute.name}]
    /\ UNCHANGED <<stack, outcome, log, parser, registry, calls, parse, eval>>

\* return schema
schema_build_return ==
    /\ build.status = "running"
    /\ build.pos = Len(build.attrs)
    /\ build' = [build EXCEPT !.status = "ok"]
    /\ UNCHANGED <<stack, outcome, log, parser, registry, calls, parse, eval>>

(***************************************************************************)
(* DocumentParser.parse (core/parser.py)                                   *)
(***************************************************************************)
MaxDocs == 3

DocKinds == {"case", "template", "step", "invalid"}

\* a stream of documents, each known by its position
Streams ==
    {[i \in 1..Len(ks) |-> [kind |-> ks[i], id |-> i]] : ks \in SeqsUpTo(DocKinds, MaxDocs)}

NoDocument == [kind |-> "none", id |-> 0]

\* isinstance(item.root, (Case, Template))
is_header(document) == document.kind \in {"case", "template"}

\* the position of a header is not checked
header_misplaced_never(position) == FALSE

\* if position > 0: raise DSLSchemaError('Header must be at first position')
header_misplaced(position) == position > 0

\* documents = list(load_all(content, Loader=self.loader))
parse_load ==
    /\ parse.status = "loading"
    /\ parse' = [parse EXCEPT !.status = IF parse.yaml_ok THEN "running" ELSE "Invalid YAML"]
    /\ UNCHANGED <<stack, outcome, log, parser, registry, calls, build, eval>>

\* one iteration of: for position, document in enumerate(documents)
parse_document ==
    /\ parse.status = "running"
    /\ parse.position < Len(parse.documents)
    /\ LET document == parse.documents[parse.position + 1] IN
       parse' =
          IF document.kind = "invalid"
          THEN [parse EXCEPT !.status = "Validation error"]
          ELSE IF is_header(document)
          THEN IF header_misplaced(parse.position)
               THEN [parse EXCEPT !.status = "Header must be at first position"]
               ELSE [parse EXCEPT !.header = document, !.position = @ + 1]
          ELSE [parse EXCEPT !.steps = Append(@, document), !.position = @ + 1]
    /\ UNCHANGED <<stack, outcome, log, parser, registry, calls, build, eval>>

\* return header, tuple(steps)
parse_return ==
    /\ parse.status = "running"
    /\ parse.position = Len(parse.documents)
    /\ parse' = [parse EXCEPT !.status = "ok"]
    /\ UNCHANGED <<stack, outcome, log, parser, registry, calls, build, eval>>

\* any header, or none, is accepted
parse_file_check_any(expect, header) == "ok"

\* DocumentParser.parse_file: the expectation on the header parse returned
parse_file_check(expect, header) ==
    IF expect = "template" /\ header.kind # "template"
    THEN "Template must contain a template header definition"
    ELSE IF expect = "case" /\ header # NoDocument /\ header.kind # "case"
         THEN "Case must contain a case header definition"
         ELSE "ok"

\* parse_file after self.parse(content) returned: raise or return header, steps
parse_file_return ==
    /\ parse.status = "ok"
    /\ "file" \in DOMAIN parse
    /\ parse.file = "pending"
    /\ parse' = [parse EXCEPT !.file = parse_file_check(parse.expect, parse.header)]
    /\ UNCHANGED <<stack, outcome, log, parser, registry, calls, build, eval>>

(***************************************************************************)
(* Specifications                                                          *)
(***************************************************************************)
IdlePlan ==
    /\ stack = <<>>
    /\ outcome = [kind |-> "idle"]
    /\ log = <<>>
    /\ parser = FALSE

IdleRegistry ==
    /\ registry = DocumentParser(FALSE)
    /\ calls = <<>>

IdleBuild == build = [status |-> "idle"]

IdleParse == parse = [status |-> "idle"]

IdleEval == eval = [fn |-> "idle"]

\* a plan run
Init == PlanInit /\ IdleRegistry /\ IdleBuild /\ IdleParse /\ IdleEval

Next ==
    \/ run_header
    \/ run_step
    \/ include
    \/ include_parse
    \/ return_spec
    \/ merge_result
    \/ resolve_exports
    \/ merge_exports
    \/ run_check
    \/ commit_exports

Spec == Init /\ [][Next]_vars

\* the plan engine with the nesting followed without limit
NextLive ==
    \/ Next
    \/ include_again

\* the interpreter keeps executing a plan that has a next statement
SpecLive == Init /\ [][NextLive]_vars /\ WF_vars(NextLive)

\* registrations on a parser constructed in strict or in lenient mode
RegistryInit ==
    /\ \E strict \in BOOLEAN : registry = DocumentParser(strict)
    /\ calls = <<>>
    /\ IdlePlan /\ IdleBuild /\ IdleParse /\ IdleEval

RegistryNext ==
    \/ AddActor
    \/ AddChecker
    \/ AddContentType
    \/ AddInstruction

SpecRegistry == RegistryInit /\ [][RegistryNext]_vars

\* registrations, clear_plugins() and build() calls on one parser, in any order
BuildNext ==
    \/ AddActor
    \/ AddChecker
    \/ ClearPlugins
    \/ Build

SpecBuild == RegistryInit /\ [][BuildNext]_vars

\* Schema.build on every schema and exclusion set within the bounds
SchemaInit ==
    /\ \E sch \in Schemas, ex \in SUBSET ReservedNames :
          build = [status |-> "running", attrs |-> sch, exclude0 |-> ex,
                   pos |-> 0, exclude |-> ex, fields |-> {}]
    /\ IdlePlan /\ IdleRegistry /\ IdleParse /\ IdleEval

SchemaNext ==
    \/ schema_build_step
    \/ schema_build_return

SpecSchema == SchemaInit /\ [][SchemaNext]_vars

\* DocumentParser.parse on every stream within the bounds
ParseInit ==
    /\ \E docs \in Streams, ok \in BOOLEAN :
          parse = [status |-> "loading", yaml_ok |-> ok, documents |-> docs,
                   position |-> 0, header |-> NoDocument, steps |-> <<>>]
    /\ IdlePlan /\ IdleRegistry /\ IdleBuild /\ IdleEval

ParseNext ==
    \/ parse_load
    \/ parse_document
    \/ parse_return

SpecParse == ParseInit /\ [][ParseNext]_vars

\* DocumentParser.parse_file on every stream within the bounds, in both modes
ParseFileInit ==
    /\ \E docs \in Streams, ok \in BOOLEAN, expect \in {"case", "template"} :
          parse = [status |-> "loading", yaml_ok |-> ok, documents |-> docs,
                   position |-> 0, header |-> NoDocument, steps |-> <<>>,
                   expect |-> expect, file |-> "pending"]
    /\ IdlePlan /\ IdleRegistry /\ IdleBuild /\ IdleEval

ParseFileNext ==
    \/ parse_load
    \/ parse_document
    \/ parse_return
    \/ parse_file_return

SpecParseFile == ParseFileInit /\ [][ParseFileNext]_vars

(***************************************************************************)
(* Properties of the registry                                              *)
(***************************************************************************)
Tables == {"actors", "checkers", "decoders", "encoders", "instructions"}

\* the keys a call writes in a table
CallKeys(c, table) ==
    CASE c.kind = "actor" /\ table = "actors" -> {qualname(c.namespace, c.item.name)}
      [] c.kind = "checker" /\ table = "checkers" -> {qualname("", c.item.name)}
      [] c.kind = "content" /\ table = "decoders" /\ c.item.decoder # "none" ->
            {qualname("", c.item.name)}
      [] c.kind = "content" /\ table = "encoders" /\ c.item.encoder # "none" ->
            {qualname("", c.item.name)}
      [] c.kind = "instruction" /\ table = "instructions" -> {c.item.name}
      [] OTHER -> {}

\* the behaviour a call binds in a table
CallBehaviour(c, table) ==
    CASE table = "decoders" -> c.item.decoder
      [] table = "encoders" -> c.item.encoder
      [] OTHER -> c.item.behaviour

\* the last call that registered key in table, 0 when only the constructor did
LastCall(table, key) ==
    LET hits == {i \in DOMAIN calls :
                    calls[i].raised = "none" /\ key \in CallKeys(calls[i], table)}
    IN IF hits = {} THEN 0 ELSE CHOOSE i \in hits : \A j \in hits : j <= i

\* call i came under a name that was registered before it
Shadowing(i) ==
    \E table \in Tables : \E key \in CallKeys(calls[i], table) :
       \/ key \in DOMAIN DocumentParser(FALSE)[table]
       \/ \E j \in 1..(i - 1) :
             calls[j].raised = "none" /\ key \in CallKeys(calls[j], table)

\* C6: in strict mode a registration under a name that is already in its table
\* raises PluginError from the add_* call itself, and no entry of any table is
\* ever replaced: the earlier registration stays, built-in or not.
C6_StrictShadowingRaises ==
    [][registry.strict_mode =>
         LET c == calls'[Len(calls')] IN
         /\ (\E table \in Tables :
                CallKeys(c, table) \cap DOMAIN registry[table] # {}) =>
               c.raised = "PluginError"
         /\ \A table \in Tables : \A key \in DOMAIN registry[table] :
               /\ key \in DOMAIN registry'[table]
               /\ registry'[table][key] = registry[table][key]
         /\ registry'.warnings = registry.warnings]_vars

\* strict mode: an actor named like the built-in one was refused and the
\* built-in entry is still in the table
C6_Witness ==
    /\ registry.strict_mode
    /\ \E i \in DOMAIN calls :
          /\ calls[i].kind = "actor"
          /\ calls[i].item.name = "empty"
          /\ calls[i].namespace = ""
          /\ calls[i].raised = "PluginError"
    /\ registry.actors[qualname("", "empty")].runner = "builtin"

\* C7: in lenient mode no call raises a conflict error, a call warns exactly
\* when it shadows, and every table maps each name to the variant of the last
\* descriptor registered under it, so the behaviour bound to the name is the
\* later registration's.
C7_LenientLastWriterWins ==
    ~registry.strict_mode =>
       /\ \A i \in DOMAIN calls :
             /\ calls[i].raised # "PluginError"
             /\ calls[i].warned <=> Shadowing(i)
       /\ registry.warnings >= Cardinality({i \in DOMAIN calls : Shadowing(i)})
       /\ \A table \in Tables :
             /\ \A i \in DOMAIN calls :
                   calls[i].raised = "none" =>
                      CallKeys(calls[i], table) \subseteq DOMAIN registry[table]
             /\ \A key \in DOMAIN registry[table] :
                   LET i == LastCall(table, key) IN
                   IF i = 0
                   THEN registry[table][key] = DocumentParser(FALSE)[table][key]
                   ELSE /\ registry[table][key].runner = CallBehaviour(calls[i], table)
                        /\ table = "checkers" =>
                              registry[table][key].keys =
                                 {calls[i].item.name} \cup calls[i].item.aliases

\* lenient mode: increment was registered twice, the second time with a
\* warning, and the table holds the second behaviour
C7_Witness ==
    /\ ~registry.strict_mode
    /\ Len(calls) = 2
    /\ calls[1].kind = "actor" /\ calls[1].item.behaviour = "first"
    /\ calls[2].kind = "actor" /\ calls[2].item.behaviour = "second"
    /\ calls[1].namespace = "" /\ calls[2].namespace = ""
    /\ calls[1].item.name = "increment" /\ calls[2].item.name = "increment"
    /\ calls[2].raised = "none" /\ calls[2].warned
    /\ registry.warnings = 1
    /\ registry.actors[qualname("", "increment")].runner = "second"

\* C8: while no registration has shadowed (no warning, no conflict error), no
\* two registered check variants accept the same discriminator key, the
\* field's name and its aliases counted.
C8_NoSharedCheckKeys ==
    (registry.warnings = 0 /\ \A i \in DOMAIN calls : calls[i].raised # "PluginError") =>
       \A k1, k2 \in DOMAIN registry.checkers :
          k1 # k2 => registry.checkers[k1].keys \cap registry.checkers[k2].keys = {}

(***************************************************************************)
(* Properties of Schema.build                                              *)
(***************************************************************************)
NamesOf(attribute) == {attribute.name} \cup attribute.aliases

\* some name or alias equals a reserved name or another attribute's name or alias
Collides(attrs, exclude) ==
    \/ \E i \in DOMAIN attrs : NamesOf(attrs[i]) \cap exclude # {}
    \/ \E i, j \in DOMAIN attrs : i # j /\ NamesOf(attrs[i]) \cap NamesOf(attrs[j]) # {}

\* C9: Schema.build raises ValueError exactly for the schemas in which a name
\* or alias of an attribute equals a name or alias of another attribute or a
\* name of the exclusion set; otherwise it returns a field for every attribute.
C9_SchemaBuildRejectsCollisions ==
    build.status \in {"ok", "ValueError"} =>
       /\ build.status = "ValueError" <=> Collides(build.attrs, build.exclude0)
       /\ build.status = "ok" =>
             build.fields = {build.attrs[i].name : i \in DOMAIN build.attrs}
       /\ Schema_build(build.attrs, build.exclude0).status = build.status

\* two attributes share an alias and nothing else: rejected at the second one
C9_Witness ==
    /\ build.status = "ValueError"
    /\ build.exclude0 = {}
    /\ Len(build.attrs) = 2
    /\ build.pos = 1
    /\ build.attrs[1].aliases = {"x"}
    /\ build.attrs[2].aliases = {"x"}

(***************************************************************************)
(* Properties of DocumentParser.parse                                      *)
(***************************************************************************)
\* the positions (from 1) after the first that hold a header
LateHeaders(documents) == {i \in DOMAIN documents : i > 1 /\ is_header(documents[i])}

FORMAT_REPLACER == StrVal("<runtime object>")

\* ErrorFormatter._filter_unsafe: the data handed to yaml.dump
RECURSIVE filter_unsafe(_)
filter_unsafe(value) ==
    CASE value.t = "null" \/ value.t \in ScalarTags -> value
      [] value.t = "map" -> MapVal([k \in DOMAIN value.m |-> filter_unsafe(value.m[k])])
      [] value.t \in SequenceTags ->
            SeqVal(value.t, [i \in DOMAIN value.items |-> filter_unsafe(value.items[i])])
      [] OTHER -> FORMAT_REPLACER

\* ErrorFormatter._make_snippet: the context and the element, each through _make_yaml
make_snippet(element, values) ==
    [context |-> filter_unsafe(MapVal([context |-> MapVal(values)])),
     element |-> filter_unsafe(MapVal(element))]

(***************************************************************************)
(* The pure functions applied to the inputs within the bounds              *)
(***************************************************************************)
MaxPath == 4
MaxLen == 2

\* the path segments; the first one matches VARIABLE_PATTERN
Segments == {"obj", "lst", "var", "0", "1", "5", ""}
VariableNames == {"obj", "lst", "var"}
Paths == {p \in SeqsUpTo(Segments, MaxPath) : p # <<>> /\ p[1] \in VariableNames}

LookupContexts == {
    [obj |-> MapVal([lst |-> SeqVal("list", <<StrVal("ignore this"),
                                              MapVal([var |-> IntVal(42)])>>)])],
    [obj |-> IntVal(42)],
    [obj |-> MapVal([var |-> SecretVal("secret"), lst |-> Null])],
    [obj |-> SeqVal("tuple", <<MapVal("0" :> IntVal(9))>>), var |-> StrVal("text")]
}

\* the values compared by the checkers
MatchItems == {IntVal(0), IntVal(42), IntVal(95)}
MatchValues ==
    {Null, IntVal(1), IntVal(42), BoolVal(TRUE), FloatVal(1), StrVal("1")}
    \cup {SeqVal("list", items) : items \in SeqsUpTo(MatchItems, MaxLen)}
    \cup {SeqVal("tuple", <<IntVal(42)>>),
          SeqVal("list", <<BoolVal(TRUE)>>), SeqVal("list", <<IntVal(1)>>),
          MapVal([a |-> IntVal(1), b |-> IntVal(2)]), MapVal([a |-> IntVal(1)]),
          MapVal([a |-> IntVal(2)])}

\* deferred structures: values, callables, and containers of them
DeferredItems == {Null, IntVal(1), StrVal("a"), Var(<<"var">>), Var(<<"missing">>),
                  Const(Var(<<"var">>)), Const(SeqVal("tuple", <<IntVal(1)>>)),
                  Raising, Obj}
DeferredFlat ==
    DeferredItems
    \cup {SeqVal(kind, items) : kind \in SequenceTags,
                                items \in SeqsUpTo(DeferredItems, MaxLen)}
DeferredPool ==
    DeferredFlat
    \cup {MapVal([value |-> d]) : d \in DeferredFlat}
    \cup {MapVal([value |-> d, static |-> StrVal("static_value")]) : d \in DeferredItems}
ResolveContexts == {[var |-> IntVal(10)],
                    [var |-> MapVal([x |-> SeqVal("list", <<IntVal(1)>>)])]}

\* what a failure report snapshots: model fields and contexts holding secrets,
\* callables and other objects
SnapshotItems == {IntVal(1), Null, SecretVal("secret"), Obj, Var(<<"var">>)}
SnapshotValues ==
    SnapshotItems
    \cup {SeqVal(kind, items) : kind \in SequenceTags,
                                items \in SeqsUpTo(SnapshotItems, MaxLen)}
    \cup {MapVal([field |-> d]) : d \in SnapshotItems}
SnapshotElements == {[action |-> StrVal("empty"), val |-> d] : d \in SnapshotItems}
SnapshotContexts == {[value |-> d] : d \in SnapshotValues}

(***************************************************************************)
(* Content transformers (extensions/contents.py)                           *)
(***************************************************************************)
\* the texts the decoders are given and what json.loads makes of them
JsonTexts == [valid |-> MapVal([value |-> IntVal(42)]), scalar |-> IntVal(42)]
JsonSources == {StrVal("valid"), StrVal("scalar"), StrVal("broken"), Null}
\* the keyword arguments json.loads accepts
JsonKeywords == {"strict"}

\* tests/examples/contents.py json_decode: loads(value, **params)
json_decode(value, params) ==
    IF /\ DOMAIN params \subseteq JsonKeywords
       /\ value.t = "str"
       /\ value.s \in DOMAIN JsonTexts
    THEN JsonTexts[value.s]
    ELSE Err

\* the decoder descriptors: the test's decoder and one that declares a parameter
DecoderPool == {
    [decoder |-> "json_decode", parameters |-> {}],
    [decoder |-> "json_decode", parameters |-> {"strict"}]
}

\* the test's transformers, and one that declares a parameter of its own
TransformerPool == {
    [name |-> "inc", parameters |-> {}],
    [name |-> "mul", parameters |-> {}],
    [name |-> "inc", parameters |-> {"mul"}]
}

\* lambda val, params: {'value': val['value'] + params['inc']} and the same with
\* `*` and 'mul'; a descriptor with both applies the increment first
transformer_call(t, val, params) ==
    IF \/ val.t # "map"
       \/ "value" \notin DOMAIN val.m
       \/ \E k \in DOMAIN params : params[k].t # "int"
    THEN Err
    ELSE LET inc == IF "inc" \in DOMAIN params THEN params["inc"].v ELSE 0
             mul == IF "mul" \in DOMAIN params THEN params["mul"].v ELSE 1
         IN MapVal([value |-> IntVal((val.m["value"].v + inc) * mul)])

\* the base operation is given every parameter
base_params_unfiltered(params, owned) == params

\* base_params = {key: value for key, value in params.items()
\*                if key not in transformer_params}
base_params(params, owned) == [k \in DOMAIN params \ owned |-> params[k]]

\* ContentTransformer.build_wrapper: the calls made, in order, and the result
wrapper(t, base, value, params) ==
    LET owned == {t.name} \cup t.parameters IN
    IF ~(owned \subseteq DOMAIN params)
    THEN [made |-> <<>>, result |-> Err]
    ELSE LET transformer_params == [k \in owned |-> params[k]]
             first == [fn |-> "base", value |-> value,
                       params |-> base_params(params, owned)]
             decoded == json_decode(first.value, first.params)
             second == [fn |-> "transformer", value |-> decoded,
                        params |-> transformer_params]
         IN IF decoded = Err
            THEN [made |-> <<first>>, result |-> Err]
            ELSE [made |-> <<first, second>>,
                  result |-> transformer_call(t, second.value, second.params)]

\* the parameters of a validated transformer variant, as model_dump gives them:
\* one entry for the discriminator and for each declared parameter
ParameterValues == {Null, IntVal(1), IntVal(5)}
VariantParams(t, base) ==
    [{t.name} \cup t.parameters \cup base.parameters -> ParameterValues]

Pending(fn, a, b) == [fn |-> fn, status |-> "pending", a |-> a, b |-> b, result |-> Null]
Applied(result) == [eval EXCEPT !.status = "done", !.result = result]

\* VariableLookup(path)(context)
lookup_resolve ==
    /\ eval.fn = "lookup" /\ eval.status = "pending"
    /\ eval' = Applied(VariableLookup(MapVal(eval.a), eval.b))
    /\ UNCHANGED <<stack, outcome, log, parser, registry, calls, build, parse>>

\* SecretLookup(path)(context)
secret_lookup ==
    /\ eval.fn = "secret" /\ eval.status = "pending"
    /\ eval' = Applied(SecretLookup_call(eval.a, eval.b))
    /\ UNCHANGED <<stack, outcome, log, parser, registry, calls, build, parse>>

\* _eq(value, {'match': expected, 'partial_match': False})
eq_exact ==
    /\ eval.fn = "exact" /\ eval.status = "pending"
    /\ eval' = Applied(exact_match(eval.a, eval.b))
    /\ UNCHANGED <<stack, outcome, log, parser, registry, calls, build, parse>>

\* _eq(value, {'match': expected, 'partial_match': True})
eq_partial ==
    /\ eval.fn = "partial" /\ eval.status = "pending"
    /\ eval' = Applied(partial_match(eval.a, eval.b))
    /\ UNCHANGED <<stack, outcome, log, parser, registry, calls, build, parse>>

\* ContextDict(context).resolve(value)
context_resolve ==
    /\ eval.fn = "resolve" /\ eval.status = "pending"
    /\ eval' = Applied(normalize(eval.a, eval.b))
    /\ UNCHANGED <<stack, outcome, log, parser, registry, calls, build, parse>>

\* BaseContent.__call__ of a transformer variant: runner(source, parameters)
content_transform ==
    /\ eval.fn = "transform" /\ eval.status = "pending"
    /\ eval' = Applied(wrapper(eval.a.transformer, eval.a.base, eval.a.source, eval.b))
    /\ UNCHANGED <<stack, outcome, log, parser, registry, calls, build, parse>>

\* the snippet of a report for an element and a context
format_snippet ==
    /\ eval.fn = "snapshot" /\ eval.status = "pending"
    /\ eval' = Applied(make_snippet(eval.a, eval.b))
    /\ UNCHANGED <<stack, outcome, log, parser, registry, calls, build, parse>>

ValuesInit ==
    /\ \/ \E c \in LookupContexts, path \in Paths, fn \in {"lookup", "secret"} :
             eval = Pending(fn, c, path)
       \/ \E a \in MatchValues, b \in MatchValues, fn \in {"exact", "partial"} :
             eval = Pending(fn, a, b)
       \/ \E x \in DeferredPool, c \in ResolveContexts : eval = Pending("resolve", x, c)
       \/ \E e \in SnapshotElements, c \in SnapshotContexts : eval = Pending("snapshot", e, c)
       \/ \E t \in TransformerPool, base \in DecoderPool, source \in JsonSources :
             \E params \in VariantParams(t, base) :
                eval = Pending("transform",
                               [transformer |-> t, base |-> base, source |-> source],
                               params)
    /\ IdlePlan /\ IdleRegistry /\ IdleBuild /\ IdleParse

ValuesNext ==
    \/ lookup_resolve
    \/ secret_lookup
    \/ eq_exact
    \/ eq_partial
    \/ context_resolve
    \/ content_transform
    \/ format_snippet

SpecValues == ValuesInit /\ [][ValuesNext]_vars

(***************************************************************************)
(* Properties of the lookups                                               *)
(***************************************************************************)
Missing == [t |-> "missing"]

\* the member of val that one segment addresses, Missing when it addresses none
Child(val, key) ==
    IF key = "" THEN Missing
    ELSE IF val.t \in {"list", "tuple"}
         THEN IF key \in DOMAIN Decimals /\ Decimals[key] < Len(val.items)
              THEN val.items[Decimals[key] + 1] ELSE Missing
         ELSE IF val.t = "map" /\ key \in DOMAIN val.m THEN val.m[key] ELSE Missing

\* the value a path addresses, Missing when some segment does not apply
RECURSIVE Addressed(_, _)
Addressed(val, path) ==
    IF path = <<>> THEN val
    ELSE LET c == Child(val, Head(path)) IN
         IF c = Missing THEN Missing ELSE Addressed(c, Tail(path))

\* C11: a path lookup never raises; it returns the addressed value when every
\* segment applies and null when some segment meets a missing key, an index out
\* of range, a null or scalar or wrong-typed container, or is empty.
C11_LookupIsTotal ==
    (eval.fn = "lookup" /\ eval.status = "done") =>
       LET addressed == Addressed(MapVal(eval.a), eval.b) IN
       /\ eval.result # Err
       /\ addressed = Missing => eval.result = Null
       /\ addressed # Missing => eval.result = addressed

\* obj.lst.5.var on a list of two: the index is out of range, the result is null
C11_Witness ==
    /\ eval.fn = "lookup" /\ eval.status = "done"
    /\ eval.b = <<"obj", "lst", "5", "var">>
    /\ "lst" \in DOMAIN eval.a["obj"].m
    /\ eval.a["obj"].m["lst"].t = "list"
    /\ eval.result = Null

\* C12: the secret lookup returns the unwrapped secret when the value at the
\* path is a secret and null when it is any other value.
C12_SecretLookupFailClosed ==
    (eval.fn = "secret" /\ eval.status = "done") =>
       LET found == VariableLookup(MapVal(eval.a), eval.b) IN
       /\ found.t = "secret" => eval.result = StrVal(found.s)
       /\ found.t # "secret" => eval.result = Null

\* a secret, a callable or another object somewhere in a value
RECURSIVE HasUnsafe(_)
HasUnsafe(value) ==
    CASE value.t = "map" -> \E k \in DOMAIN value.m : HasUnsafe(value.m[k])
      [] value.t \in SequenceTags -> \E i \in DOMAIN value.items : HasUnsafe(value.items[i])
      [] OTHER -> value.t \in {"secret", "call", "obj"}

\* C13: in a report the snapshot of the fields and of the context holds no
\* secret and no object that is not a plain value: each is replaced by
\* '<runtime object>' at any depth before serialization.
C13_SnapshotIsSanitized ==
    (eval.fn = "snapshot" /\ eval.status = "done") =>
       /\ ~HasUnsafe(eval.result.context)
       /\ ~HasUnsafe(eval.result.element)

(***************************************************************************)
(* Properties of the checkers                                              *)
(***************************************************************************)
\* C14: for sequences the partial match holds iff every element of expected
\* partially matches at least one element of actual.
C14_PartialMatchCoversExpected ==
    (/\ eval.fn = "partial" /\ eval.status = "done"
     /\ eval.a.t \in SequenceTags /\ eval.b.t \in SequenceTags) =>
       (eval.result = "pass" <=>
           \A j \in DOMAIN eval.b.items : \E i \in DOMAIN eval.a.items :
              partial_match(eval.a.items[i], eval.b.items[j]) = "pass")

\* C15: the exact match passes only for two values of the identical runtime
\* type that are equal.
C15_ExactMatchSameType ==
    (eval.fn = "exact" /\ eval.status = "done" /\ eval.result = "pass") =>
       /\ eval.a.t = eval.b.t
       /\ PyEq(eval.a, eval.b)

(***************************************************************************)
(* Properties of resolution                                                *)
(***************************************************************************)
\* a callable somewhere in a value
RECURSIVE HasDeferred(_)
HasDeferred(value) ==
    CASE value.t = "map" -> \E k \in DOMAIN value.m : HasDeferred(value.m[k])
      [] value.t \in SequenceTags -> \E i \in DOMAIN value.items : HasDeferred(value.items[i])
      [] OTHER -> value.t = "call"

\* C16: a resolution that returns yields a value with no deferred member at
\* any depth, and resolving that value again in the same context returns it
\* unchanged.
C16_ResolveIdempotent ==
    (eval.fn = "resolve" /\ eval.status = "done" /\ eval.result # Err) =>
       /\ ~HasDeferred(eval.result)
       /\ normalize(eval.result, eval.b) = eval.result

\* a tuple holding a callable that returns a callable was resolved to a list
C16_Witness ==
    /\ eval.fn = "resolve" /\ eval.status = "done"
    /\ eval.a = SeqVal("tuple", <<Const(Var(<<"var">>)), IntVal(1)>>)
    /\ eval.b = [var |-> IntVal(10)]
    /\ eval.result = SeqVal("list", <<IntVal(10), IntVal(1)>>)

(***************************************************************************)
(* Properties of DocumentParser.build                                      *)
(***************************************************************************)
BuildCalls == {i \in DOMAIN calls : calls[i].kind = "build"}

\* C17: build() on a parser whose actions table is empty raises a build error
\* instead of returning a model.
C17_EmptyActionsFailBuild ==
    \A i \in BuildCalls :
       calls[i].item.actors = {} => calls[i].raised = "DSLBuildError"

\* the build() calls that returned
Built == {i \in BuildCalls : calls[i].raised = "none"}

\* C18: the first build() that succeeds returns the model composed from what
\* the registry held at that call; every later build() returns that same model
\* and none fails, whatever was registered or cleared in between; a build()
\* that fails caches nothing.
C18_ModelBuiltOnce ==
    /\ \A i \in Built :
          LET first == CHOOSE j \in Built : \A k \in Built : j <= k IN
          /\ calls[i].returned = calls[first].returned
          /\ calls[first].returned =
                build_document(calls[first].item.actors, calls[first].item.checkers)
          /\ \A j \in BuildCalls : j > first => j \in Built
          /\ registry.cached_model = calls[first].returned
    /\ Built = {} => registry.cached_model = NoModel

\* a build succeeded, an actor was registered under a new name, and the
\* build after it returned the first model, which is without that actor
C18_Witness ==
    /\ Len(calls) = 3
    /\ calls[1].kind = "build" /\ calls[1].raised = "none"
    /\ calls[2].kind = "actor" /\ calls[2].raised = "none"
    /\ calls[3].kind = "build" /\ calls[3].raised = "none"
    /\ registry.actors[qualname(calls[2].namespace, calls[2].item.name)]
          \notin calls[1].item.actors
    /\ calls[3].returned = calls[1].returned
    /\ calls[3].item.actors # calls[1].item.actors
    /\ registry.cached_model = build_document(calls[1].item.actors, calls[1].item.checkers)

(***************************************************************************)
(* Properties of the step's local context block                            *)
(***************************************************************************)
\* C19: the variables a step declares in its vars block are part of the
\* execution context once the step has run: each resolves to its declared value
\* when the step's exports are resolved and when its checks run.
C19_StepVarsInContext ==
    \A i \in DOMAIN stack :
       LET f == stack[i]
           step == f.steps[f.idx + 1]
           declared == resolve(step.vars, deepcopy(f.gpre))
       IN (f.pc \in {"export", "mexport", "check"} /\ declared # Err) =>
             \A x \in DOMAIN step.vars :
                x \in DOMAIN f.locals /\ f.locals[x] = declared[x]

(***************************************************************************)
(* Properties of DocumentParser.parse_file                                 *)
(***************************************************************************)
\* C20: parse_file returns with expect='template' only when the first document
\* is a Template header, and with expect='case' only when the header is absent
\* or a Case; a parsed stream with any other header, or with no header where a
\* template is expected, is rejected with a schema error; the returned steps are
\* the step documents of the stream in order.
C20_ParseFileEnforcesKind ==
    LET documents == parse.documents
        first == IF documents = <<>> THEN "none" ELSE documents[1].kind
    IN (parse.status = "ok" /\ parse.file # "pending") =>
          /\ parse.file = "ok" =>
                /\ parse.expect = "template" => first = "template"
                /\ parse.expect = "case" => first \in {"none", "step", "case"}
                /\ parse.steps = SelectSeq(documents, LAMBDA d : d.kind = "step")
          /\ (parse.expect = "template" /\ first # "template") =>
                parse.file = "Template must contain a template header definition"
          /\ (parse.expect = "case" /\ first = "template") =>
                parse.file = "Case must contain a case header definition"

\* a file that starts with a Case header was parsed where a template is expected
C20_Witness ==
    /\ parse.status = "ok"
    /\ parse.expect = "template"
    /\ Len(parse.documents) = 2
    /\ parse.documents[1].kind = "case"
    /\ parse.documents[2].kind = "step"
    /\ parse.file = "Template must contain a template header definition"

\* a context with a callable somewhere in one of its values
Unresolved(context) == \E k \in DOMAIN context : HasDeferred(context[k])

\* C23: while a plan runs, started with no unresolved parameter, no context
\* holds a callable at any depth: not the parameters and global context of
\* any activation, not a step's result, local view or exports, and not the
\* context that run_spec returns.
C23_ContextsAreResolved ==
    /\ \A n \in DOMAIN stack :
          /\ ~Unresolved(stack[n].params)
          /\ ~Unresolved(stack[n].globals)
          /\ ~Unresolved(stack[n].locals)
          /\ ~Unresolved(stack[n].results)
          /\ ~Unresolved(stack[n].exports)
    /\ outcome.kind = "returned" => ~Unresolved(outcome.value)

\* a behaviour function returned a callable inside a mapping and its value,
\* called and normalized, was exported and returned
C23_Witness ==
    /\ outcome.kind = "returned"
    /\ Len(stack[1].steps) > 0
    /\ stack[1].steps[Len(stack[1].steps)].action = "lazy"
    /\ "value" \in DOMAIN outcome.value
    /\ outcome.value["value"] = IntVal(3)

(***************************************************************************)
(* Properties of the content transformers                                  *)
(***************************************************************************)
\* the keys a transformer owns: its discriminator and its schema's keys
Owned(t) == {t.name} \cup t.parameters

\* C24: a transformer variant calls the base operation first and once, with
\* the source value and exactly the parameters the transformer does not own;
\* when the base operation returns, the transformer function is called once,
\* after it, with the base result and exactly the parameters the transformer
\* owns; when the base operation raises, the transformer is not called.
C24_TransformerWrapsBase ==
    (eval.fn = "transform" /\ eval.status = "done") =>
       LET made == eval.result.made
           t == eval.a.transformer
           decoded == json_decode(eval.a.source,
                                  [k \in DOMAIN eval.b \ Owned(t) |-> eval.b[k]])
       IN /\ Len(made) >= 1
          /\ made[1].fn = "base"
          /\ made[1].value = eval.a.source
          /\ DOMAIN made[1].params = DOMAIN eval.b \ Owned(t)
          /\ \A k \in DOMAIN made[1].params : made[1].params[k] = eval.b[k]
          /\ Cardinality({i \in DOMAIN made : made[i].fn = "base"}) = 1
          /\ decoded = Err => Len(made) = 1 /\ eval.result.result = Err
          /\ decoded # Err =>
                /\ Len(made) = 2
                /\ made[2].fn = "transformer"
                /\ made[2].value = decoded
                /\ DOMAIN made[2].params = Owned(t)
                /\ \A k \in Owned(t) : made[2].params[k] = eval.b[k]

\* the test's case: {"value": 42} decoded by a decoder with a parameter of
\* its own and incremented by five
C24_Witness ==
    /\ eval.fn = "transform" /\ eval.status = "done"
    /\ eval.a.base.parameters = {"strict"}
    /\ eval.a.transformer.name = "inc"
    /\ eval.b["inc"] = IntVal(5)
    /\ Len(eval.result.made) = 2
    /\ eval.result.made[1].params = [strict |-> Null]
    /\ eval.result.result = MapVal([value |-> IntVal(47)])

(***************************************************************************)
(* Properties of the template files                                        *)
(***************************************************************************)
\* the activations that hold an open template file
Open == {n \in DOMAIN stack : stack[n].content # Closed}

\* C25: at most one template file is open at any moment; the one that is
\* open belongs to the innermost activation, which is between opening the
\* file of its include step and the end of parsing it; no activation holds a
\* file while a nested plan runs, and none after a failure.
C25_TemplateOpenOnlyWhileParsed ==
    /\ Cardinality(Open) <= 1
    /\ \A n \in Open :
          /\ n = Len(stack)
          /\ outcome = Running
          /\ stack[n].pc = "parse"
          /\ stack[n].content = stack[n].steps[stack[n].idx + 1].file

\* a template included by an included template is open, the files of the two
\* enclosing includes are closed
C25_Witness ==
    /\ Len(stack) = 3
    /\ Open = {3}
    /\ stack[1].pc = "nested"
    /\ stack[2].pc = "nested"

\* the parse of an included file failed and its handle was released
C25_WitnessFailure ==
    /\ outcome.kind = "raised"
    /\ outcome.error.cls = "DSLSchemaError"
    /\ Len(log) > 0
    /\ log[Len(log)].res = "parse failed"
    /\ Open = {}

C26_DepthReached ==
    /\ Len(stack) = MaxDepth
    /\ outcome = Running
    /\ \A n \in 1..(MaxDepth - 1) : stack[n].pc = "nested"
    /\ \A n \in 2..MaxDepth : stack[n].steps = Files["loop"].steps
(***************************************************************************)
(* Properties of the header phase                                          *)
(***************************************************************************)
\* the parameter binding a header sees
Binding(frame) ==
    IF frame.header.spec = "template"
    THEN resolve_parameters(frame.header.pdefs, frame.params)
    ELSE frame.params

\* the seed context of a header: params, envs and, for a case, meta
Seed(frame) ==
    LET base == [params |-> MapVal(Binding(frame)),
                 envs |-> MapVal(resolve_environment(frame.header.edefs))]
    IN IF frame.header.spec = "case"
       THEN Update(base, [meta |-> MapVal(frame.header.metadata)])
       ELSE base

\* C28: the global context a header produces holds every seed entry
\* unchanged, whatever the header's variables are called, and every other
\* header variable resolved against the seed alone.
C28_SeedWinsOverVariables ==
    [][(log' # log /\ log'[Len(log')].ev = "header" /\ log'[Len(log')].res = "ok") =>
          LET globals_ == stack'[Len(stack')].globals
              seed == Seed(Top)
          IN /\ DOMAIN globals_ = DOMAIN seed \cup DOMAIN Top.header.vars
             /\ \A k \in DOMAIN seed : globals_[k] = seed[k]
             /\ \A k \in DOMAIN Top.header.vars \ DOMAIN seed :
                   globals_[k] = normalize(Top.header.vars[k], seed)]_vars

\* a case header declared params, meta and envs itself and a variable that
\* refers to another one: the seed entries are in the global context and the
\* reference found nothing
C28_Witness ==
    /\ Len(stack) = 1
    /\ Top.pc = "loop"
    /\ Top.header.spec = "case"
    /\ {"params", "meta", "envs", "copy"} \subseteq DOMAIN Top.header.vars
    /\ Top.globals["params"] = MapVal(EmptyMap)
    /\ Top.globals["meta"] = MapVal(EmptyMap)
    /\ Top.globals["envs"] = MapVal(EmptyMap)
    /\ Top.globals["value"] = IntVal(1)
    /\ Top.globals["copy"] = Null

(***************************************************************************)
(* Properties of the exports                                               *)
(***************************************************************************)
\* C29: every entry of a step's export mapping is resolved against one and
\* the same view: the global context the step started with, updated with the
\* step's result and with nothing else, so that an entry referring to a name
\* the step exports sees what that name held before the step.
C29_ExportsShareOneView ==
    [][(log' # log /\ log'[Len(log')].ev = "export" /\ log'[Len(log')].res = "ok") =>
          LET view == Update(Top.gpre, Top.results)
              exports == stack'[Len(stack')].exports
          IN /\ DOMAIN exports = DOMAIN CurStep.export
             /\ \A k \in DOMAIN exports : exports[k] = normalize(CurStep.export[k], view)]_vars

\* value was 1; the step exported value = 2 and seen = value, and seen is 1
C29_Witness ==
    /\ Len(stack) = 1
    /\ Top.pc = "mexport"
    /\ {"value", "seen"} \subseteq DOMAIN Top.exports
    /\ Top.gpre["value"] = IntVal(1)
    /\ Top.exports["value"] = IntVal(2)
    /\ Top.exports["seen"] = IntVal(1)

(***************************************************************************)
(* Properties of the failure coordinates                                   *)
(***************************************************************************)
\* the step coordinates that failures in the steps of a plan are reported with
StepCoordinates(frame) ==
    {get_location_string(i) : i \in 0..(Len(frame.steps) - 1)}

\* C30: a located failure names its unit: a failure in a step is reported
\* with that step's own coordinate, different for different steps, and a
\* failure of the header with a coordinate that no step of the plan has.
C30_CoordinatesIdentifyUnit ==
    (outcome.kind = "raised" /\ outcome.error.step_num # NoneNum) =>
       LET e == outcome.error IN
       /\ e.at.ev # "header" =>
             get_location_string(e.step_num) = get_location_string(e.at.step)
       /\ e.at.ev = "header" =>
             get_location_string(e.step_num) \notin StepCoordinates(Top)

(***************************************************************************)
(* Properties of a failed registration                                     *)
(***************************************************************************)
\* C27: a registration call that raises a conflict error leaves the five
\* tables of the registry as they were before the call.
C27_FailedRegistrationChangesNothing ==
    [][(calls' # calls /\ calls'[Len(calls')].raised = "PluginError") =>
          \A table \in Tables : registry'[table] = registry[table]]_vars

====
